---- MODULE Spec2Model ----
(***************************************************************************)
(* A model of the EM-DAT visualisation code: the memoised CSV loader       *)
(* (src/lib/emdatData.ts), the load effect of the chart components, and    *)
(* the aggregation memos of the two-country charts.                        *)
(*                                                                         *)
(* JavaScript strings are modelled as sequences of one-character strings,  *)
(* so that trim(), toLowerCase(), replace() and Number() are computed and  *)
(* not assumed.  A JavaScript "number | null" is a record                  *)
(*   [kind, num, den]  with kind in {"null","NaN","Infinity","finite"},    *)
(* a finite value being the rational num/den.                              *)
(***************************************************************************)
EXTENDS Integers, Sequences, FiniteSets, TLC

VARIABLES
  \* ---- loader and components (specification Spec)
  csv,          \* the rows d3.dsv will read from DATA_PATH
  cachedData,   \* emdatData.ts:48  (NoPromise = null, i = the promise of load i)
  loads,        \* one entry per d3.dsv call: "pending" | "resolved" | "rejected"
  comp,         \* per component: React state + effect closure + callback position
  \* ---- parseNumericField alone (specification SpecNum)
  raw,          \* the argument
  parsed,       \* the returned value, or Unset before the call
  \* ---- row conversion and cleaning (specification SpecRow)
  rawRow,       \* one row as d3.dsv hands it to the row callback
  loaderVariant,\* which loader file converts it
  converted,    \* the records produced by the row callback
  delivered,    \* the list the promise resolves with
  rowPc,        \* "start" | "converted" | "cleaned"
  \* ---- two-country charts (specification SpecCompare)
  data,         \* useState<DisasterRecord[] | null>
  selectedCountries,
  selectedTypes,
  yearRange,
  metric,
  binSize,
  \* ---- floorToBin / binLabel alone (specification SpecBin)
  binCall,      \* the arguments [year, bin]
  binResult,    \* [key, label] once the two functions have returned
  \* ---- single-country charts (specifications SpecStacked, SpecBoxplot, SpecHeatmap); they share data,
  \*      selectedTypes, yearRange and (the stacked timeline) metric with the above
  countryId,
  boxplotMetric,
  heatmapMetric,
  resolution,
  \* ---- the filter state of CompareCountriesClient (specifications SpecYears, SpecSelect); they share
  \*      yearRange and selectedCountries with the above
  yearCall,          \* the last updateStartYear / updateEndYear call: [fn, value]
  renderedCountries, \* the selectedCountries of the render whose closures handle the clicks
  selectCall,        \* the last action on the country filter: [fn, country]
  \* ---- ContinentKPIOverview (specification SpecKpi)
  kpi,               \* its props, React state and pending effect
  \* ---- aggregation runs over the shared record list (specification SpecShared)
  runs               \* the runs made so far: [key, out] each

loaderVars  == <<csv, cachedData, loads, comp>>
numVars     == <<raw, parsed>>
rowVars     == <<rawRow, loaderVariant, converted, delivered, rowPc>>
compareVars == <<data, selectedCountries, selectedTypes, yearRange, metric, binSize>>
binVars     == <<binCall, binResult>>
countryVars == <<countryId, boxplotMetric, heatmapMetric, resolution>>
clientVars  == <<yearCall, renderedCountries, selectCall, kpi, runs>>
vars == <<loaderVars, numVars, rowVars, compareVars, binVars, countryVars, clientVars>>

-----------------------------------------------------------------------------
(* Bounds *)

MaxRawLen == 3      \* longest raw string handed to parseNumericField
NComp == 3          \* how many component instances mount
MaxRecords == 3     \* how many rows of MasterCsv a loaded data set may draw on
YearLo == 1999      \* the year-range slider window explored
YearHi == 2005

-----------------------------------------------------------------------------
(* JavaScript values *)

NullNum  == [kind |-> "null",     num |-> 0,  den |-> 1]
NaN      == [kind |-> "NaN",      num |-> 0,  den |-> 1]
PosInf   == [kind |-> "Infinity", num |-> 1,  den |-> 1]
NegInf   == [kind |-> "Infinity", num |-> -1, den |-> 1]
Num(n)   == [kind |-> "finite",   num |-> n,  den |-> 1]
Unset    == [kind |-> "unset",    num |-> 0,  den |-> 1]

IsNull(x)   == x.kind = "null"
NumberIsFinite(x) == x.kind = "finite"
NumberIsNaN(x)    == x.kind = "NaN"
\* x / k for a finite x and k > 0
Divide(x, k) == [x EXCEPT !.den = x.den * k]
\* numeric equality of two finite values
NumEq(x, y) == x.kind = "finite" /\ y.kind = "finite" /\ x.num * y.den = y.num * x.den
\* a ?? b
Coalesce(a, b) == IF IsNull(a) THEN b ELSE a

\* A raw CSV cell: a string, or undefined when the column is missing.
Undefined == [def |-> FALSE, s |-> <<>>]
Str(s)    == [def |-> TRUE,  s |-> s]

Digits == <<"0", "1", "2", "3", "4", "5", "6", "7", "8", "9">>
IsDigit(c) == \E i \in 1..10 : Digits[i] = c
DigitVal(c) == (CHOOSE i \in 1..10 : Digits[i] = c) - 1

UpperCase == <<"A","B","C","D","E","F","G","H","I","J","K","L","M",
               "N","O","P","Q","R","S","T","U","V","W","X","Y","Z">>
LowerCase == <<"a","b","c","d","e","f","g","h","i","j","k","l","m",
               "n","o","p","q","r","s","t","u","v","w","x","y","z">>
LowerChar(c) ==
  IF \E i \in 1..Len(UpperCase) : UpperCase[i] = c
  THEN LowerCase[CHOOSE i \in 1..Len(UpperCase) : UpperCase[i] = c]
  ELSE c

\* String.prototype.toLowerCase
ToLowerCase(s) == [i \in 1..Len(s) |-> LowerChar(s[i])]

RECURSIVE TrimStart(_)
TrimStart(s) == IF s # <<>> /\ Head(s) = " " THEN TrimStart(Tail(s)) ELSE s
RECURSIVE TrimEnd(_)
TrimEnd(s) ==
  IF s # <<>> /\ s[Len(s)] = " " THEN TrimEnd(SubSeq(s, 1, Len(s) - 1)) ELSE s
\* String.prototype.trim
Trim(s) == TrimEnd(TrimStart(s))

IsComma(c) == c = ","
NotComma(c) == ~IsComma(c)
\* trimmed.replace(/,/g, "")
StripCommas(s) == SelectSeq(s, NotComma)

RECURSIVE DecimalValue(_)
DecimalValue(s) ==
  IF s = <<>> THEN 0 ELSE 10 * DecimalValue(SubSeq(s, 1, Len(s) - 1)) + DigitVal(s[Len(s)])

InfinityStr == <<"I","n","f","i","n","i","t","y">>

\* String(n) for an integer n: the decimal digits, most significant first,
\* behind a minus sign when n < 0
RECURSIVE NatToStr(_)
NatToStr(n) == IF n < 10 THEN <<Digits[n + 1]>> ELSE NatToStr(n \div 10) \o <<Digits[(n % 10) + 1]>>
NumToStr(n) == IF n < 0 THEN <<"-">> \o NatToStr(-n) ELSE NatToStr(n)

\* a StrDecimalLiteral with a decimal point ("2002.5", ".5", "5."): the digits
\* either side of the one point; NaN when body is none
DecimalFraction(neg, body) ==
  LET dots == {i \in 1..Len(body) : body[i] = "."}
  IN  IF Cardinality(dots) # 1 THEN NaN
      ELSE LET dot == CHOOSE i \in dots : TRUE
               digits == SubSeq(body, 1, dot - 1) \o SubSeq(body, dot + 1, Len(body))
           IN  IF digits # <<>> /\ \A i \in 1..Len(digits) : IsDigit(digits[i])
               THEN [ kind |-> "finite",
                      num |-> (IF neg THEN -1 ELSE 1) * DecimalValue(digits),
                      den |-> 10 ^ (Len(body) - dot) ]
               ELSE NaN

\* Number(s) and unary +s (ECMAScript StringToNumber) on the strings the model
\* draws: optional white space, an optional sign, then decimal digits with at
\* most one decimal point, or the literal Infinity; the empty string is 0;
\* anything else is NaN.
ToNumber(s) ==
  LET t == Trim(s)
      signed == t # <<>> /\ Head(t) \in {"+", "-"}
      body == IF signed THEN Tail(t) ELSE t
      neg == signed /\ Head(t) = "-"
  IN  IF t = <<>> THEN Num(0)
      ELSE IF body = InfinityStr THEN (IF neg THEN NegInf ELSE PosInf)
      ELSE IF body # <<>> /\ \A i \in 1..Len(body) : IsDigit(body[i])
           THEN Num((IF neg THEN -1 ELSE 1) * DecimalValue(body))
           ELSE DecimalFraction(neg, body)

-----------------------------------------------------------------------------
(* src/lib/emdatData.ts *)

parseNumericField(r) ==
  IF ~r.def THEN NullNum
  ELSE LET trimmed == Trim(r.s) IN
       IF trimmed = <<>> THEN NullNum
       ELSE LET num == ToNumber(StripCommas(trimmed)) IN
            IF NumberIsFinite(num) THEN num ELSE NullNum

parseStringField(r) == IF ~r.def THEN <<>> ELSE Trim(r.s)

\* a || b on strings
OrStr(a, b) == IF a # <<>> THEN a ELSE b

\* yearStr ? +yearStr : NaN
yearOf(yearStr) == IF yearStr.def /\ yearStr.s # <<>> THEN ToNumber(yearStr.s) ELSE NaN

insuredDamageAdjOf(row) ==
  Coalesce(parseNumericField(row.InsuredDamageAdj),
           Coalesce(parseNumericField(row.InsuredAdj), parseNumericField(row.Insured)))

economicDamageAdj_NoRescale(totalDamageAdj, reconstructionCostsAdj, insuredDamageAdj) ==
  Coalesce(totalDamageAdj, Coalesce(reconstructionCostsAdj, Coalesce(insuredDamageAdj, NullNum)))

economicDamageAdjOf(totalDamageAdj, reconstructionCostsAdj, insuredDamageAdj) ==
  LET e == Coalesce(totalDamageAdj,
                    Coalesce(reconstructionCostsAdj, Coalesce(insuredDamageAdj, NullNum)))
  IN  IF ~IsNull(e) THEN Divide(e, 1000) ELSE e

\* the row callback given to d3.dsv
rowCallback(row) ==
  LET totalDamageAdj == parseNumericField(row.TotalDamageAdj)
      reconstructionCostsAdj == parseNumericField(row.ReconstructionCostsAdj)
      insuredDamageAdj == insuredDamageAdjOf(row)
  IN  [ iso |-> parseStringField(row.ISO),
        country |-> parseStringField(row.Country),
        region |-> OrStr(parseStringField(row.Region), parseStringField(row.EMDATRegion)),
        subregion |-> OrStr(parseStringField(row.Subregion), parseStringField(row.EMDATSubregion)),
        year |-> yearOf(row.StartYear),
        startMonth |-> parseNumericField(row.StartMonth),
        startDay |-> parseNumericField(row.StartDay),
        endMonth |-> parseNumericField(row.EndMonth),
        endDay |-> parseNumericField(row.EndDay),
        disasterType |-> parseStringField(row.DisasterType),
        totalDeaths |-> parseNumericField(row.TotalDeaths),
        totalAffected |-> parseNumericField(row.TotalAffected),
        totalDamageAdj |-> totalDamageAdj,
        reconstructionCostsAdj |-> reconstructionCostsAdj,
        insuredDamageAdj |-> insuredDamageAdj,
        economicDamageAdj |->
          economicDamageAdjOf(totalDamageAdj, reconstructionCostsAdj, insuredDamageAdj) ]

\* (row.ISO || "").trim()
trimOrEmpty(r) == IF r.def /\ r.s # <<>> THEN Trim(r.s) ELSE <<>>

\* the row callback of the loader file part_004: no totalDamageAdj column is
\* read, and economicDamageAdj is not rescaled.  The fields that file does not
\* produce are filled with their empty values.
rowCallbackPart004(row) ==
  LET reconstructionCostsAdj == parseNumericField(row.ReconstructionCostsAdj)
      insuredDamageAdj == insuredDamageAdjOf(row)
  IN  [ iso |-> trimOrEmpty(row.ISO),
        country |-> trimOrEmpty(row.Country),
        region |-> <<>>,
        subregion |-> <<>>,
        year |-> yearOf(row.StartYear),
        startMonth |-> NullNum,
        startDay |-> NullNum,
        endMonth |-> NullNum,
        endDay |-> NullNum,
        disasterType |-> trimOrEmpty(row.DisasterType),
        totalDeaths |-> parseNumericField(row.TotalDeaths),
        totalAffected |-> parseNumericField(row.TotalAffected),
        totalDamageAdj |-> NullNum,
        reconstructionCostsAdj |-> reconstructionCostsAdj,
        insuredDamageAdj |-> insuredDamageAdj,
        economicDamageAdj |-> Coalesce(reconstructionCostsAdj, Coalesce(insuredDamageAdj, NullNum)) ]

\* d.country && !Number.isNaN(d.year) && d.disasterType
keepRow(d) == d.country # <<>> /\ ~NumberIsNaN(d.year) /\ d.disasterType # <<>>

\* rows.filter(...)
cleaned(rows) == SelectSeq(rows, keepRow)

MapRows(rows, variant) ==
  [i \in 1..Len(rows) |->
     IF variant = "part_004" THEN rowCallbackPart004(rows[i]) ELSE rowCallback(rows[i])]

-----------------------------------------------------------------------------
(* Inputs *)

BlankRow ==
  [ ISO |-> Undefined, Country |-> Undefined, Region |-> Undefined,
    Subregion |-> Undefined, EMDATRegion |-> Undefined, EMDATSubregion |-> Undefined,
    StartYear |-> Undefined, DisasterType |-> Undefined,
    StartMonth |-> Undefined, StartDay |-> Undefined,
    EndMonth |-> Undefined, EndDay |-> Undefined,
    TotalDeaths |-> Undefined, TotalAffected |-> Undefined,
    TotalDamageAdj |-> Undefined, ReconstructionCostsAdj |-> Undefined,
    InsuredDamageAdj |-> Undefined, InsuredAdj |-> Undefined, Insured |-> Undefined ]

Peru  == <<"P","e","r","u">>
PERU  == <<"P","E","R","U">>
PER   == <<"P","E","R">>
Chad  == <<"C","h","a","d">>
TCD   == <<"T","C","D">>
Mali  == <<"M","a","l","i">>
MLI   == <<"M","L","I">>

\* src/lib/utils/disasterTypes.ts
Drought  == <<"D","r","o","u","g","h","t">>
Earthquake == <<"E","a","r","t","h","q","u","a","k","e">>
ExtremeTemperature ==
  <<"E","x","t","r","e","m","e"," ","t","e","m","p","e","r","a","t","u","r","e">>
Flood    == <<"F","l","o","o","d">>
Fog      == <<"F","o","g">>
MassMovementDry ==
  <<"M","a","s","s"," ","m","o","v","e","m","e","n","t"," ","(","d","r","y",")">>
MassMovementWet ==
  <<"M","a","s","s"," ","m","o","v","e","m","e","n","t"," ","(","w","e","t",")">>
GlacialLakeOutburstFlood ==
  <<"G","l","a","c","i","a","l"," ","l","a","k","e"," ","o","u","t","b","u","r","s","t",
    " ","f","l","o","o","d">>
Storm    == <<"S","t","o","r","m">>
VolcanicActivity ==
  <<"V","o","l","c","a","n","i","c"," ","a","c","t","i","v","i","t","y">>
Wildfire == <<"W","i","l","d","f","i","r","e">>

DISASTER_TYPES ==
  << Drought, Earthquake, ExtremeTemperature, Flood, Fog, MassMovementDry,
     MassMovementWet, GlacialLakeOutburstFlood, Storm, VolcanicActivity, Wildfire >>

\* A small EM-DAT file.  Rows 2 and 4 match "Peru"/"Chad" by name only, in
\* another letter case; row 3 lies in another 5- and 10-year bin than rows 1, 2.
CsvRow(iso, country, year, type, deaths, affected) ==
  [BlankRow EXCEPT !.ISO = iso, !.Country = country, !.StartYear = year,
                   !.DisasterType = type, !.TotalDeaths = deaths,
                   !.TotalAffected = affected]

MasterCsv ==
  << CsvRow(Str(PER), Str(Peru), Str(<<"2","0","0","1">>), Str(Flood),
            Str(<<"2">>), Str(<<"5">>)),
     CsvRow(Str(<<>>), Str(PERU), Str(<<"2","0","0","3">>), Str(Storm),
            Str(<<>>), Str(<<"1">>)),
     CsvRow(Str(TCD), Str(Chad), Str(<<"1","9","9","9">>), Str(Flood),
            Str(<<"1">>), Undefined),
     CsvRow(Str(MLI), Str(Mali), Str(<<"2","0","0","1">>), Str(Flood),
            Str(<<"4">>), Str(<<"4">>)),
     CsvRow(Str(TCD), Str(<<" ">> \o Chad), Str(<<"2","0","0","1">>), Str(Flood),
            Str(<<"3">>), Str(<<"1",",","0">>)),
     CsvRow(Str(PER), Str(Peru), Str(<<"2","0","0","1">>), Str(Drought),
            Str(<<"1">>), Str(<<"1">>)) >>

\* let cachedData = null
NoPromise == 0

Idle_loader  == csv = <<>> /\ cachedData = NoPromise /\ loads = <<>> /\ comp = <<>>
Idle_num     == raw = Undefined /\ parsed = Unset
Idle_row     == rawRow = <<>> /\ loaderVariant = "emdatData" /\ converted = <<>>
                /\ delivered = <<>> /\ rowPc = "start"
NullData     == [loaded |-> FALSE, rows |-> <<>>]
Idle_compare == data = NullData /\ selectedCountries = <<>> /\ selectedTypes = {}
                /\ yearRange = <<YearLo, YearHi>> /\ metric = "events" /\ binSize = 5
NoCall       == [year |-> 0, bin |-> 1]
NoResult     == [key |-> 0, label |-> <<>>]
Idle_bin     == binCall = NoCall /\ binResult = NoResult
Idle_country == countryId = <<>> /\ boxplotMetric = "deaths" /\ heatmapMetric = "events"
                /\ resolution = "decade"
NoYearCall   == [fn |-> "", value |-> NullNum]
NoSelectCall == [fn |-> "", country |-> <<>>]
Idle_client  == /\ yearCall = NoYearCall /\ renderedCountries = <<>>
                /\ selectCall = NoSelectCall /\ kpi = <<>> /\ runs = <<>>

-----------------------------------------------------------------------------
(* Specification SpecNum: parseNumericField on every short raw string *)

RawAlphabet == {"0", "1", "7", "-", "+", ",", " ", "x"}
RawStrings == UNION {[1..k -> RawAlphabet] : k \in 0..MaxRawLen}
RawInputs ==
  {Undefined} \cup {Str(s) : s \in RawStrings}
              \cup {Str(InfinityStr), Str(<<"-">> \o InfinityStr), Str(<<"N","a","N">>)}

InitNum ==
  /\ raw \in RawInputs
  /\ parsed = Unset
  /\ Idle_loader /\ Idle_row /\ Idle_compare /\ Idle_bin /\ Idle_country /\ Idle_client

CallParseNumericField ==
  /\ parsed = Unset
  /\ parsed' = parseNumericField(raw)
  /\ UNCHANGED <<clientVars, raw, loaderVars, rowVars, compareVars, binVars, countryVars>>

NextNum == CallParseNumericField
SpecNum == InitNum /\ [][NextNum]_vars

-----------------------------------------------------------------------------
(* Specification SpecRow: the row callback and the cleaning filter *)

YearCells ==
  { Undefined, Str(<<>>), Str(<<" ">>), Str(<<"2","0","0","1">>), Str(<<"x">>),
    Str(InfinityStr) }
CountryCells == { Undefined, Str(<<" ">>), Str(Peru \o <<" ">>) }
TypeCells    == { Str(<<>>), Str(Flood) }
MoneyCells   == { Undefined, Str(<<>>), Str(<<"2","0","0","0">>), Str(<<"x">>) }

RawRowChoices ==
  { [BlankRow EXCEPT !.Country = c, !.StartYear = y, !.DisasterType = t,
                     !.TotalDamageAdj = td, !.ReconstructionCostsAdj = rc,
                     !.InsuredDamageAdj = i1, !.InsuredAdj = i2, !.Insured = i3] :
      c \in CountryCells, y \in YearCells, t \in TypeCells, td \in MoneyCells,
      rc \in {Undefined, Str(<<"5","0","0">>), Str(<<"0">>)},
      i1 \in {Undefined, Str(<<"7","0">>)},
      i2 \in {Undefined, Str(<<"8","0">>)},
      i3 \in {Str(<<" ">>), Str(<<"9",",","0","0","0">>)} }

InitRow ==
  /\ rawRow \in {<<MasterCsv[1], r>> : r \in RawRowChoices}
  /\ loaderVariant \in {"emdatData", "part_004"}
  /\ converted = <<>>
  /\ delivered = <<>>
  /\ rowPc = "start"
  /\ Idle_loader /\ Idle_num /\ Idle_compare /\ Idle_bin /\ Idle_country /\ Idle_client

\* d3.dsv applies the row callback to every row
RowConvert ==
  /\ rowPc = "start"
  /\ converted' = MapRows(rawRow, loaderVariant)
  /\ rowPc' = "converted"
  /\ UNCHANGED <<clientVars, rawRow, loaderVariant, delivered, loaderVars, numVars, compareVars, binVars, countryVars>>

\* .then((rows) => rows.filter(...))
ThenClean ==
  /\ rowPc = "converted"
  /\ delivered' = cleaned(converted)
  /\ rowPc' = "cleaned"
  /\ UNCHANGED <<clientVars, rawRow, loaderVariant, converted, loaderVars, numVars, compareVars, binVars, countryVars>>

NextRow == RowConvert \/ ThenClean
SpecRow == InitRow /\ [][NextRow]_vars

-----------------------------------------------------------------------------
(* C5, C6, C7 *)

\* C6: for every raw input, parseNumericField returns null or a finite number
\* that is >= 0 (never NaN, never negative).
C6_NullOrFiniteNonNegative ==
  parsed # Unset =>
    \/ IsNull(parsed)
    \/ (NumberIsFinite(parsed) /\ parsed.num >= 0 /\ parsed.den > 0)

\* C5: every record of the delivered list has a finite year, a non-empty
\* disasterType and a non-empty country, and the delivered list is exactly the
\* converted rows that have all three, in order.
ValidRecord(d) == NumberIsFinite(d.year) /\ d.disasterType # <<>> /\ d.country # <<>>
C5_DeliveredRecordsValid ==
  rowPc = "cleaned" =>
    /\ \A i \in 1..Len(delivered) : ValidRecord(delivered[i])
    /\ delivered = SelectSeq(converted, ValidRecord)

\* C7 (as stated): for every record, of either loader file, economicDamageAdj
\* is the first non-null of (totalDamageAdj, reconstructionCostsAdj,
\* insuredDamageAdj) divided by 1000, and null exactly when all three are null.
FirstNonNullOver1000(d) ==
  LET srcs == <<d.totalDamageAdj, d.reconstructionCostsAdj, d.insuredDamageAdj>>
      nonNull == {i \in 1..3 : ~IsNull(srcs[i])}
      first == CHOOSE i \in nonNull : \A j \in nonNull : i <= j
  IN  IF nonNull = {} THEN IsNull(d.economicDamageAdj)
      ELSE /\ NumberIsFinite(d.economicDamageAdj)
           /\ d.economicDamageAdj.num * 1000 = srcs[first].num * d.economicDamageAdj.den
-----------------------------------------------------------------------------
(* Specification Spec: the memoised loader and the components' load effect *)

Components == 1..NComp
\* Three shapes of load effect occur in the components:
\*  "chart": CountryTimelineStacked, CountryTimelineDiverging, ... (cancelled flag,
\*           data/loading/error state)
\*  "card" : TotalEventsCard (isMounted flag, data state only; its loading and
\*           error fields below never change)
\*  "kpi"  : ContinentKPIOverview (cancelled flag; its catch also sets the data)
KindOf(c) == IF c % 3 = 1 THEN "chart" ELSE IF c % 3 = 2 THEN "card" ELSE "kpi"

NoError == ""
Loaded(rows) == [loaded |-> TRUE, rows |-> rows]

\* useState initial values; pc is the position of the effect's promise callback,
\* sub the promise getDisasterData returned, seen what that promise's load was
\* doing when the call was made.
InitialComp(c) ==
  [ pc |-> "init", cancelled |-> FALSE, sub |-> NoPromise, seen |-> "",
    data |-> NullData, loading |-> KindOf(c) # "card", error |-> NoError ]

CsvChoices ==
  { <<>>, SubSeq(MasterCsv, 1, 2),
    <<MasterCsv[1], [MasterCsv[2] EXCEPT !.StartYear = Str(<<"x">>)]>> }

Init ==
  /\ csv \in CsvChoices
  /\ cachedData = NoPromise
  /\ loads = <<>>
  /\ comp = [c \in Components |-> InitialComp(c)]
  /\ Idle_num /\ Idle_row /\ Idle_compare /\ Idle_bin /\ Idle_country /\ Idle_client

getDisasterData_NoCache ==
  [ cachedData |-> Len(loads) + 1, loads |-> Append(loads, "pending"),
    promise |-> Len(loads) + 1 ]

\* getDisasterData(): the new cachedData, the d3.dsv calls, the promise returned
getDisasterData ==
  IF cachedData = NoPromise
  THEN [ cachedData |-> Len(loads) + 1, loads |-> Append(loads, "pending"),
         promise |-> Len(loads) + 1 ]
  ELSE [ cachedData |-> cachedData, loads |-> loads, promise |-> cachedData ]

cachedDataAfterCatch_Reset == NoPromise

\* .catch((err) => { console.error(...); return []; }) leaves cachedData alone
cachedDataAfterCatch == cachedData

\* the records the loader's .then returns for each file, computed once
cleanedRows == [f \in CsvChoices |-> cleaned(MapRows(f, "emdatData"))]

\* What the promise of load i settles to: the cleaned rows, or [] from the catch.
promiseResult(i) ==
  IF loads[i] = "resolved"
  THEN [status |-> "fulfilled", rows |-> cleanedRows[csv]]
  ELSE [status |-> "fulfilled", rows |-> <<>>]

thenHandler_KeepLoading(st, kind, rows) ==
  IF st.cancelled THEN st ELSE [st EXCEPT !.data = Loaded(rows)]

thenHandler_IgnoreCancelled(st, kind, rows) ==
  IF kind = "card" THEN [st EXCEPT !.data = Loaded(rows)]
  ELSE [st EXCEPT !.data = Loaded(rows), !.loading = FALSE]

\* .then((rows) => { if (cancelled) return; setData(rows); setLoading(false); })
thenHandler(st, kind, rows) ==
  IF st.cancelled THEN st
  ELSE IF kind = "card" THEN [st EXCEPT !.data = Loaded(rows)]
  ELSE [st EXCEPT !.data = Loaded(rows), !.loading = FALSE]

\* .catch((err) => { if (!cancelled) { setError(...); setLoading(false); } })
catchHandler(st, kind) ==
  IF st.cancelled THEN st
  ELSE IF kind = "card" THEN [st EXCEPT !.data = Loaded(<<>>)]
  ELSE IF kind = "kpi"
       THEN [st EXCEPT !.error = "Failed to load EM-DAT data",
                       !.data = Loaded(<<>>), !.loading = FALSE]
       ELSE [st EXCEPT !.error = "Could not load EM-DAT data.", !.loading = FALSE]

\* The effect body: setLoading(true); setError(null); getDisasterData().then(..).catch(..)
Mount(c) ==
  /\ comp[c].pc = "init"
  /\ LET g == getDisasterData IN
       /\ cachedData' = g.cachedData
       /\ loads' = g.loads
       /\ comp' = [comp EXCEPT ![c] =
            [@ EXCEPT !.pc = "waiting", !.sub = g.promise,
                      !.seen = IF cachedData = NoPromise THEN "started" ELSE loads[cachedData],
                      !.loading = KindOf(c) # "card", !.error = NoError]]
  /\ UNCHANGED <<clientVars, csv, numVars, rowVars, compareVars, binVars, countryVars>>

\* The effect cleanup: cancelled = true (isMounted = false)
Unmount(c) ==
  /\ comp[c].pc # "init"
  /\ ~comp[c].cancelled
  /\ comp' = [comp EXCEPT ![c].cancelled = TRUE]
  /\ UNCHANGED <<clientVars, csv, cachedData, loads, numVars, rowVars, compareVars, binVars, countryVars>>

\* d3.dsv fulfils: the .then of the loader cleans the rows
DsvResolve(i) ==
  /\ loads[i] = "pending"
  /\ loads' = [loads EXCEPT ![i] = "resolved"]
  /\ UNCHANGED <<clientVars, csv, cachedData, comp, numVars, rowVars, compareVars, binVars, countryVars>>

\* d3.dsv rejects: the .catch of the loader logs and returns []
DsvReject(i) ==
  /\ loads[i] = "pending"
  /\ loads' = [loads EXCEPT ![i] = "rejected"]
  /\ cachedData' = cachedDataAfterCatch
  /\ UNCHANGED <<clientVars, csv, comp, numVars, rowVars, compareVars, binVars, countryVars>>

\* The component's callback runs once its promise has settled.
Deliver(c) ==
  /\ comp[c].pc = "waiting"
  /\ loads[comp[c].sub] # "pending"
  /\ LET r == promiseResult(comp[c].sub)
         st == IF r.status = "fulfilled"
               THEN thenHandler(comp[c], KindOf(c), r.rows)
               ELSE catchHandler(comp[c], KindOf(c))
     IN  comp' = [comp EXCEPT ![c] = [st EXCEPT !.pc = "done"]]
  /\ UNCHANGED <<clientVars, csv, cachedData, loads, numVars, rowVars, compareVars, binVars, countryVars>>

Next ==
  \/ \E c \in Components : Mount(c)
  \/ \E c \in Components : Unmount(c)
  \/ \E c \in Components : Deliver(c)
  \/ \E i \in DOMAIN loads : DsvResolve(i)
  \/ \E i \in DOMAIN loads : DsvReject(i)

Spec == Init /\ [][Next]_vars

\* A promise callback is a microtask: once the promise has settled it runs.
\* Nothing makes the browser settle the request, and nothing makes a component
\* mount or unmount.
\* The content of the file plays no part in it: one file is loaded.
InitLive == Init /\ csv = SubSeq(MasterCsv, 1, 2)
SpecLive == InitLive /\ [][Next]_vars /\ \A c \in Components : WF_vars(Deliver(c))

-----------------------------------------------------------------------------
(* C1 .. C4 *)

Called(c) == comp[c].pc # "init"

\* C1: getDisasterData is single-flight: d3.dsv is started at most once, every
\* call returns the same promise, and so every component that commits data
\* commits the same record list.
C1_SingleFlight ==
  /\ Len(loads) <= 1
  /\ \A c, d \in Components :
       (Called(c) /\ Called(d)) =>
         /\ comp[c].sub = comp[d].sub
         /\ (comp[c].data.loaded /\ comp[d].data.loaded) => comp[c].data = comp[d].data

\* one call made while the load was in flight, one after it had settled, both served
C1_Witness ==
  \E c, d \in Components :
    /\ c # d
    /\ comp[c].seen = "pending" /\ comp[d].seen = "resolved"
    /\ comp[c].data.loaded /\ comp[d].data.loaded
    /\ comp[c].data.rows # <<>>

\* C2: after the CSV load fails, every mounted component that has an error
\* state ends with its error message set and loading false.
C2_FailureEndsInErrorState ==
  \A c \in Components :
    ( /\ KindOf(c) # "card"
      /\ comp[c].pc = "done" /\ ~comp[c].cancelled
      /\ loads[comp[c].sub] = "rejected" )
    => (comp[c].error # NoError /\ comp[c].loading = FALSE)

\* C3: no retry: once a load has failed no step starts another one, and the
\* loader has been invoked exactly once as soon as any call was made.
C3_NoRetry ==
  /\ []((\E c \in Components : Called(c)) => Len(loads) = 1)
  /\ [][(\E i \in DOMAIN loads : loads[i] = "rejected") => loads' = loads]_vars

\* a call made after the load had failed
C3_Witness ==
  \E c \in Components : comp[c].seen = "rejected" /\ comp[c].pc = "done"

\* C4: a settlement delivered to a component whose cleanup has run changes none
\* of its data, loading and error state.
C4_TornDownUnchanged ==
  [][\A c \in Components :
       comp[c].cancelled =>
         /\ comp'[c].data = comp[c].data
         /\ comp'[c].loading = comp[c].loading
         /\ comp'[c].error = comp[c].error]_vars

\* a callback that ran after the cleanup and returned early
C4_Witness ==
  \E c \in Components :
    /\ comp[c].cancelled /\ comp[c].pc = "done"
    /\ ~comp[c].data.loaded
    /\ loads[comp[c].sub] = "resolved"

-----------------------------------------------------------------------------
(* The two-country charts: CountryTimelineDiverging, CountryRaincloudHalfViolin
   and CountryTypeCompositionCompare.  Each memo is an operator of the
   component's data state, its props and its metric / bin-size state. *)

\* s.trim().toLowerCase()
normalizeKey(s) == ToLowerCase(Trim(s))

floorToBin_NoFloor(year, bin) == year

\* Math.floor(year / bin) * bin
floorToBin(year, bin) == IF bin = 1 THEN year ELSE (year \div bin) * bin

\* the en dash (U+2013) of the template literal in binLabel, one character
EnDash == "u2013"

\* String(start), or `${start}<en dash>${start + bin - 1}`
binLabel(start, bin) ==
  IF bin = 1 THEN NumToStr(start)
  ELSE NumToStr(start) \o <<EnDash>> \o NumToStr(start + bin - 1)

\* d.totalDeaths ?? 0
OrZero(x) == IF IsNull(x) THEN 0 ELSE x.num

metricDelta(d, m) ==
  IF m = "events" THEN 1
  ELSE IF m = "deaths" THEN OrZero(d.totalDeaths)
  ELSE OrZero(d.totalAffected)

matchesKey(d, key) == normalizeKey(d.country) = key \/ normalizeKey(d.iso) = key

divergingKeep_ExclusiveEnd(d, aKey, bKey, enabledSet, startYear, endYear) ==
  IF d.year.num < startYear \/ d.year.num >= endYear THEN FALSE
  ELSE IF d.disasterType \notin enabledSet THEN FALSE
  ELSE matchesKey(d, aKey) \/ matchesKey(d, bKey)

\* the predicate of data.filter(...) in CountryTimelineDiverging
divergingKeep(d, aKey, bKey, enabledSet, startYear, endYear) ==
  IF d.year.num < startYear \/ d.year.num > endYear THEN FALSE
  ELSE IF d.disasterType \notin enabledSet THEN FALSE
  ELSE matchesKey(d, aKey) \/ matchesKey(d, bKey)

ZeroAB == [a |-> 0, b |-> 0]
\* agg.get(k) ?? { a: 0, b: 0 }
GetAB(agg, k) == IF k \in DOMAIN agg THEN agg[k] ELSE ZeroAB
\* agg.set(k, v)
MapSet(agg, k, v) == [x \in DOMAIN agg \cup {k} |-> IF x = k THEN v ELSE agg[x]]
EmptyMap == [x \in {} |-> ZeroAB]

divergingStep_BothSides(agg, d, aKey, bKey, m, bin) ==
  LET isA == matchesKey(d, aKey)
      isB == matchesKey(d, bKey)
      bStart == floorToBin(d.year.num, bin)
      cur == GetAB(agg, bStart)
      delta == metricDelta(d, m)
  IN  IF ~isA /\ ~isB THEN agg
      ELSE MapSet(agg, bStart,
                  [a |-> cur.a + (IF isA THEN delta ELSE 0),
                   b |-> cur.b + (IF isB THEN delta ELSE 0)])

\* one iteration of `for (const d of filtered)` in CountryTimelineDiverging
divergingStep(agg, d, aKey, bKey, m, bin) ==
  LET isA == matchesKey(d, aKey)
      isB == matchesKey(d, bKey)
      bStart == floorToBin(d.year.num, bin)
      cur == GetAB(agg, bStart)
      delta == metricDelta(d, m)
  IN  IF ~isA /\ ~isB THEN agg
      ELSE IF isA THEN MapSet(agg, bStart, [cur EXCEPT !.a = @ + delta])
      ELSE MapSet(agg, bStart, [cur EXCEPT !.b = @ + delta])

RECURSIVE divergingAgg(_, _, _, _, _, _)
divergingAgg(filtered, n, aKey, bKey, m, bin) ==
  IF n = 0 THEN EmptyMap
  ELSE divergingStep(divergingAgg(filtered, n - 1, aKey, bKey, m, bin),
                     filtered[n], aKey, bKey, m, bin)

RECURSIVE zeroFilledBins_StopEarly(_, _, _, _)
zeroFilledBins_StopEarly(agg, y, endBin, bin) ==
  IF y >= endBin THEN <<>>
  ELSE <<[binStart |-> y, label |-> binLabel(y, bin),
          a |-> GetAB(agg, y).a, b |-> GetAB(agg, y).b]>>
       \o zeroFilledBins_StopEarly(agg, y + bin, endBin, bin)

\* for (let y = startBin; y <= endBin; y += binSize) bins.push(...)
RECURSIVE zeroFilledBins(_, _, _, _)
zeroFilledBins(agg, y, endBin, bin) ==
  IF y > endBin THEN <<>>
  ELSE <<[binStart |-> y, label |-> binLabel(y, bin),
          a |-> GetAB(agg, y).a, b |-> GetAB(agg, y).b]>>
       \o zeroFilledBins(agg, y + bin, endBin, bin)

\* d3.max(values) ?? 0
MaxOrZero(S) == IF S = {} THEN 0 ELSE CHOOSE x \in S : \A y \in S : y <= x

divergingEmpty == [bins |-> <<>>, maxAbs |-> 0, countryA |-> <<>>, countryB |-> <<>>]

\* the useMemo of CountryTimelineDiverging
divergingMemo(dt, countries, types, range, m, bin) ==
  IF ~dt.loaded THEN divergingEmpty
  ELSE IF Len(countries) # 2 THEN divergingEmpty
  ELSE IF types = {} THEN divergingEmpty
  ELSE
    LET startYear == range[1]
        endYear == range[2]
        aKey == normalizeKey(countries[1])
        bKey == normalizeKey(countries[2])
        keep(d) == divergingKeep(d, aKey, bKey, types, startYear, endYear)
        filtered == SelectSeq(dt.rows, keep)
        agg == divergingAgg(filtered, Len(filtered), aKey, bKey, m, bin)
        bins == zeroFilledBins(agg, floorToBin(startYear, bin), floorToBin(endYear, bin), bin)
    IN  [ bins |-> bins,
          maxAbs |-> MaxOrZero({bins[i].a : i \in 1..Len(bins)}
                               \cup {bins[i].b : i \in 1..Len(bins)}),
          countryA |-> countries[1], countryB |-> countries[2] ]

raincloudStep_AnyType(agg, d, aKey, bKey, enabledSet, startYear, endYear, m, bin) ==
  IF d.year.num < startYear \/ d.year.num > endYear THEN agg
  ELSE LET isA == matchesKey(d, aKey)
           isB == matchesKey(d, bKey)
           bStart == floorToBin(d.year.num, bin)
           cur == GetAB(agg, bStart)
           delta == metricDelta(d, m)
       IN  IF ~isA /\ ~isB THEN agg
           ELSE IF isA THEN MapSet(agg, bStart, [cur EXCEPT !.a = @ + delta])
           ELSE MapSet(agg, bStart, [cur EXCEPT !.b = @ + delta])

\* one iteration of `for (const d of data)` in CountryRaincloudHalfViolin
raincloudStep(agg, d, aKey, bKey, enabledSet, startYear, endYear, m, bin) ==
  IF d.year.num < startYear \/ d.year.num > endYear THEN agg
  ELSE IF d.disasterType \notin enabledSet THEN agg
  ELSE LET isA == matchesKey(d, aKey)
           isB == matchesKey(d, bKey)
           bStart == floorToBin(d.year.num, bin)
           cur == GetAB(agg, bStart)
           delta == metricDelta(d, m)
       IN  IF ~isA /\ ~isB THEN agg
           ELSE IF isA THEN MapSet(agg, bStart, [cur EXCEPT !.a = @ + delta])
           ELSE MapSet(agg, bStart, [cur EXCEPT !.b = @ + delta])

RECURSIVE raincloudAgg(_, _, _, _, _, _, _, _, _)
raincloudAgg(rows, n, aKey, bKey, enabledSet, startYear, endYear, m, bin) ==
  IF n = 0 THEN EmptyMap
  ELSE raincloudStep(
         raincloudAgg(rows, n - 1, aKey, bKey, enabledSet, startYear, endYear, m, bin),
         rows[n], aKey, bKey, enabledSet, startYear, endYear, m, bin)

raincloudEmpty ==
  [countryA |-> <<>>, countryB |-> <<>>, valuesA |-> <<>>, valuesB |-> <<>>, maxValue |-> 0]

\* the useMemo of CountryRaincloudHalfViolin
raincloudMemo(dt, countries, types, range, m, bin) ==
  IF ~dt.loaded THEN raincloudEmpty
  ELSE IF Len(countries) # 2 THEN raincloudEmpty
  ELSE IF types = {} THEN raincloudEmpty
  ELSE
    LET startYear == range[1]
        endYear == range[2]
        aKey == normalizeKey(countries[1])
        bKey == normalizeKey(countries[2])
        agg == raincloudAgg(dt.rows, Len(dt.rows), aKey, bKey, types, startYear, endYear, m, bin)
        bins == zeroFilledBins(agg, floorToBin(startYear, bin), floorToBin(endYear, bin), bin)
        valuesA == [i \in 1..Len(bins) |-> bins[i].a]
        valuesB == [i \in 1..Len(bins) |-> bins[i].b]
    IN  [ countryA |-> countries[1], countryB |-> countries[2],
          valuesA |-> valuesA, valuesB |-> valuesB,
          maxValue |-> MaxOrZero({valuesA[i] : i \in 1..Len(bins)}
                                 \cup {valuesB[i] : i \in 1..Len(bins)}) ]

\* the predicate of data.filter(...) in CountryTypeCompositionCompare
compositionKeep(d, c0n, c1n, enabledSet, startYear, endYear) ==
  IF ~matchesKey(d, c0n) /\ ~matchesKey(d, c1n) THEN FALSE
  ELSE IF d.year.num < startYear \/ d.year.num > endYear THEN FALSE
  ELSE d.disasterType \in enabledSet

\* `${type}__${countryIndex}`
compositionKey(type, countryIndex) == type \o <<"_", "_">> \o <<Digits[countryIndex + 1]>>

\* agg.get(k) ?? 0
GetNum(agg, k) == IF k \in DOMAIN agg THEN agg[k] ELSE 0
EmptyNumMap == [x \in {} |-> 0]

\* one iteration of `for (const d of filtered)`: add(t, idx, delta)
compositionStep(agg, d, c0n, m) ==
  LET idx == IF matchesKey(d, c0n) THEN 0 ELSE 1
      k == compositionKey(d.disasterType, idx)
  IN  [x \in DOMAIN agg \cup {k} |->
         IF x = k THEN GetNum(agg, k) + metricDelta(d, m) ELSE agg[x]]

RECURSIVE compositionAgg(_, _, _, _)
compositionAgg(filtered, n, c0n, m) ==
  IF n = 0 THEN EmptyNumMap
  ELSE compositionStep(compositionAgg(filtered, n - 1, c0n, m), filtered[n], c0n, m)

rowSum(r) == r.values[1].value + r.values[2].value

\* rows.sort((a, b) => sumB - sumA): Array.prototype.sort is stable, so a row
\* goes behind every row already placed whose sum is at least its own.
RECURSIVE sortBySumDescending(_, _)
sortBySumDescending(rows, n) ==
  IF n = 0 THEN <<>>
  ELSE LET done == sortBySumDescending(rows, n - 1)
           r == rows[n]
           ahead == Cardinality({i \in 1..Len(done) : rowSum(done[i]) >= rowSum(r)})
       IN  SubSeq(done, 1, ahead) \o <<r>> \o SubSeq(done, ahead + 1, Len(done))

compositionEmpty == [rows |-> <<>>, maxValue |-> 0, countryKeys |-> <<>>]

compositionRowTypes_SelectedOnly(types) ==
  LET selected(x) == x \in types IN SelectSeq(DISASTER_TYPES, selected)

\* DISASTER_TYPES.map((t) => ...): one row per entry, selected or not
compositionRowTypes(types) == DISASTER_TYPES

\* the useMemo of CountryTypeCompositionCompare
compositionMemo(dt, countries, types, range, m) ==
  IF ~dt.loaded THEN compositionEmpty
  ELSE IF Len(countries) # 2 THEN compositionEmpty
  ELSE
    LET startYear == range[1]
        endYear == range[2]
        c0n == normalizeKey(countries[1])
        c1n == normalizeKey(countries[2])
        keep(d) == compositionKeep(d, c0n, c1n, types, startYear, endYear)
        filtered == SelectSeq(dt.rows, keep)
        agg == compositionAgg(filtered, Len(filtered), c0n, m)
        rowTypes == compositionRowTypes(types)
        rows == [i \in 1..Len(rowTypes) |->
                  LET t == rowTypes[i]
                      enabled == t \in types
                  IN  [ type |-> t, enabled |-> enabled,
                        values |->
                          << [country |-> countries[1],
                              value |-> IF enabled THEN GetNum(agg, compositionKey(t, 0)) ELSE 0],
                             [country |-> countries[2],
                              value |-> IF enabled THEN GetNum(agg, compositionKey(t, 1)) ELSE 0] >> ]]
        sorted == sortBySumDescending(rows, Len(rows))
    IN  [ rows |-> sorted,
          maxValue |-> MaxOrZero({sorted[i].values[j].value : i \in 1..Len(sorted), j \in 1..2}),
          countryKeys |-> countries ]

-----------------------------------------------------------------------------
(* Specification SpecCompare: the props and state the three memos depend on *)

Metrics == {"events", "deaths", "affected"}
BinSizes == {1, 5, 10}

\* Props the compare page can hand down: exact names, ISO codes in another
\* letter case with blanks around them, name and ISO code of the same country,
\* and the empty selection the page starts with.
CountryChoices ==
  { <<>>, <<Peru, Chad>>, <<<<" ">> \o ToLowerCase(PER) \o <<" ">>, ToLowerCase(TCD)>>,
    <<Peru, PER>> }
TypeChoices == { {}, {Flood}, {Flood, Storm} }
YearRanges == { <<y0, y1>> \in (YearLo..YearHi) \X (YearLo..YearHi) : y0 <= y1 }

RECURSIVE PickRows(_, _, _)
PickRows(rows, S, n) ==
  IF n = 0 THEN <<>>
  ELSE PickRows(rows, S, n - 1) \o (IF n \in S THEN <<rows[n]>> ELSE <<>>)

\* the files the loader may have read: any selection of rows of MasterCsv
CsvFiles == { PickRows(MasterCsv, S, MaxRecords) : S \in SUBSET (1..MaxRecords) }

InitCompare ==
  /\ data = NullData
  /\ selectedCountries = <<>>
  /\ selectedTypes = {Flood, Storm}
  /\ yearRange = <<YearLo, YearHi>>
  /\ metric = "events"
  /\ binSize = 5
  /\ Idle_loader /\ Idle_num /\ Idle_row /\ Idle_bin /\ Idle_country /\ Idle_client

\* the load effect's .then: setData(rows)
SetData ==
  /\ ~data.loaded
  /\ \E f \in CsvFiles : data' = Loaded(cleaned(MapRows(f, "emdatData")))
  /\ UNCHANGED <<clientVars, selectedCountries, selectedTypes, yearRange, metric, binSize,
                 loaderVars, numVars, rowVars, binVars, countryVars>>

setMetric(m) ==
  /\ metric' = m
  /\ UNCHANGED <<clientVars, data, selectedCountries, selectedTypes, yearRange, binSize,
                 loaderVars, numVars, rowVars, binVars, countryVars>>

setBinSize(b) ==
  /\ binSize' = b
  /\ UNCHANGED <<clientVars, data, selectedCountries, selectedTypes, yearRange, metric,
                 loaderVars, numVars, rowVars, binVars, countryVars>>

\* the parent re-renders the chart with a new selectedCountries prop
CountriesChange ==
  /\ selectedCountries' \in CountryChoices
  /\ UNCHANGED <<clientVars, data, selectedTypes, yearRange, metric, binSize,
                 loaderVars, numVars, rowVars, binVars, countryVars>>

\* ... with a new selectedTypes prop
TypesChange ==
  /\ selectedTypes' \in TypeChoices
  /\ UNCHANGED <<clientVars, data, selectedCountries, yearRange, metric, binSize,
                 loaderVars, numVars, rowVars, binVars, countryVars>>

\* ... with a new yearRange prop
YearRangeChange ==
  /\ yearRange' \in YearRanges
  /\ UNCHANGED <<clientVars, data, selectedCountries, selectedTypes, metric, binSize,
                 loaderVars, numVars, rowVars, binVars, countryVars>>

NextCompare ==
  \/ SetData
  \/ \E m \in Metrics : setMetric(m)
  \/ \E b \in BinSizes : setBinSize(b)
  \/ CountriesChange
  \/ TypesChange
  \/ YearRangeChange

SpecCompare == InitCompare /\ [][NextCompare]_vars

diverging == divergingMemo(data, selectedCountries, selectedTypes, yearRange, metric, binSize)
raincloud == raincloudMemo(data, selectedCountries, selectedTypes, yearRange, metric, binSize)
composition == compositionMemo(data, selectedCountries, selectedTypes, yearRange, metric)

-----------------------------------------------------------------------------
(* C8, C9, C10 *)

PairSelected == data.loaded /\ Len(selectedCountries) = 2

\* the claim's filter, stated on the record and the props alone
SelectedKeys == {ToLowerCase(Trim(selectedCountries[k])) : k \in 1..Len(selectedCountries)}
InFilter(d) ==
  /\ (ToLowerCase(Trim(d.country)) \in SelectedKeys \/ ToLowerCase(Trim(d.iso)) \in SelectedKeys)
  /\ d.disasterType \in selectedTypes
  /\ yearRange[1] <= d.year.num /\ d.year.num <= yearRange[2]

RemoveAt(s, i) == SubSeq(s, 1, i - 1) \o SubSeq(s, i + 1, Len(s))
Without(i) == [data EXCEPT !.rows = RemoveAt(data.rows, i)]

\* record i is aggregated by a chart when the chart's event counts change
\* once the record is taken out of the data
AggregatedByDiverging(i) ==
  divergingMemo(data, selectedCountries, selectedTypes, yearRange, "events", binSize).bins
  # divergingMemo(Without(i), selectedCountries, selectedTypes, yearRange, "events", binSize).bins
AggregatedByRaincloud(i) ==
  LET with == raincloudMemo(data, selectedCountries, selectedTypes, yearRange, "events", binSize)
      without == raincloudMemo(Without(i), selectedCountries, selectedTypes, yearRange,
                               "events", binSize)
  IN  with.valuesA # without.valuesA \/ with.valuesB # without.valuesB
AggregatedByComposition(i) ==
  compositionMemo(data, selectedCountries, selectedTypes, yearRange, "events").rows
  # compositionMemo(Without(i), selectedCountries, selectedTypes, yearRange, "events").rows

\* C8: in the two-country charts a record is aggregated if and only if its
\* trimmed, lower-cased country or iso equals the trimmed, lower-cased key of
\* one of the two selected countries, its type is selected, and
\* yearStart <= year <= yearEnd.
C8_AggregatedIffInFilter ==
  PairSelected =>
    \A i \in 1..Len(data.rows) :
      /\ AggregatedByDiverging(i) <=> InFilter(data.rows[i])
      /\ AggregatedByRaincloud(i) <=> InFilter(data.rows[i])
      /\ AggregatedByComposition(i) <=> InFilter(data.rows[i])

\* a record matched through its ISO code only and lying on the upper year
\* bound, one on the lower bound, and one that is filtered out
C8_Witness ==
  /\ PairSelected
  /\ \E i, j, k \in 1..Len(data.rows) :
       /\ AggregatedByDiverging(i) /\ AggregatedByComposition(i)
       /\ ToLowerCase(data.rows[i].country) \notin SelectedKeys
       /\ data.rows[i].year.num = yearRange[2]
       /\ AggregatedByDiverging(j) /\ data.rows[j].year.num = yearRange[1]
       /\ yearRange[1] < yearRange[2]
       /\ ~AggregatedByDiverging(k) /\ ~AggregatedByRaincloud(k)

ChartActive == PairSelected /\ selectedTypes # {}

BinFloor(y, B) == (y \div B) * B

\* C9: zero-fill completeness of the diverging timeline: exactly
\* (floor(y1/B)*B - floor(y0/B)*B)/B + 1 bins, binStart ascending from
\* floor(y0/B)*B in steps of B, and a = b = 0 in bins without a matching record.
C9_ZeroFillComplete ==
  ChartActive =>
    LET B == binSize
        lo == BinFloor(yearRange[1], B)
        hi == BinFloor(yearRange[2], B)
        bins == diverging.bins
    IN  /\ Len(bins) = (hi - lo) \div B + 1
        /\ \A i \in 1..Len(bins) :
             /\ bins[i].binStart = lo + (i - 1) * B
             /\ (~\E n \in 1..Len(data.rows) :
                    /\ InFilter(data.rows[n])
                    /\ bins[i].binStart <= data.rows[n].year.num
                    /\ data.rows[n].year.num <= bins[i].binStart + B - 1)
                => (bins[i].a = 0 /\ bins[i].b = 0)

\* three 5-year bins of which only the first holds records
C9_Witness ==
  /\ ChartActive /\ binSize = 5
  /\ Len(diverging.bins) = 3
  /\ diverging.bins[1].a + diverging.bins[1].b > 0
  /\ diverging.bins[2].a = 0 /\ diverging.bins[2].b = 0
  /\ diverging.bins[3].a = 0 /\ diverging.bins[3].b = 0

RECURSIVE SumSeq(_)
SumSeq(s) ==
  IF s = <<>> THEN 0
  ELSE IF Len(s) = 1 THEN s[1]
  ELSE LET h == Len(s) \div 2
       IN  SumSeq(SubSeq(s, 1, h)) + SumSeq(SubSeq(s, h + 1, Len(s)))

ClaimDelta(d, m) ==
  IF m = "events" THEN 1
  ELSE IF m = "deaths" THEN (IF d.totalDeaths.kind = "null" THEN 0 ELSE d.totalDeaths.num)
  ELSE (IF d.totalAffected.kind = "null" THEN 0 ELSE d.totalAffected.num)

MatchesFirst(d) ==
  LET k == ToLowerCase(Trim(selectedCountries[1]))
  IN  ToLowerCase(Trim(d.country)) = k \/ ToLowerCase(Trim(d.iso)) = k

-----------------------------------------------------------------------------
(* Specification SpecBin: floorToBin and binLabel on every year of a window
   around 0 and of the slider window, for every bin size *)

MaxAbsYear == 12    \* years -MaxAbsYear .. MaxAbsYear around 0, where floor and
                    \* truncation differ

BinYears == (-MaxAbsYear .. MaxAbsYear) \cup (YearLo .. YearHi)

InitBin ==
  /\ binCall \in [year : BinYears, bin : BinSizes]
  /\ binResult = NoResult
  /\ Idle_loader /\ Idle_num /\ Idle_row /\ Idle_compare /\ Idle_country /\ Idle_client

\* const bStart = floorToBin(d.year, binSize); ... label: binLabel(y, binSize)
CallFloorToBin ==
  /\ binResult = NoResult
  /\ LET k == floorToBin(binCall.year, binCall.bin)
     IN  binResult' = [key |-> k, label |-> binLabel(k, binCall.bin)]
  /\ UNCHANGED <<clientVars, binCall, loaderVars, numVars, rowVars, compareVars, countryVars>>

NextBin == CallFloorToBin
SpecBin == InitBin /\ [][NextBin]_vars

-----------------------------------------------------------------------------
(* C11 *)

\* the label cut at its en dash: the text before it, and the text after it
\* (empty when the label has no en dash)
RECURSIVE DashAt(_, _)
DashAt(s, i) == IF i > Len(s) THEN 0 ELSE IF s[i] = EnDash THEN i ELSE DashAt(s, i + 1)
BeforeDash(s) == IF DashAt(s, 1) = 0 THEN s ELSE SubSeq(s, 1, DashAt(s, 1) - 1)
AfterDash(s) == IF DashAt(s, 1) = 0 THEN <<>> ELSE SubSeq(s, DashAt(s, 1) + 1, Len(s))

\* C11: floorToBin(year, B) is floor(year / B) * B for every integer year and
\* B in {1, 5, 10}: the one multiple k of B with k <= year <= k + B - 1; the
\* label reads as the year itself when B = 1 and as k, an en dash, k + B - 1 otherwise.
C11_FloorToBinAndLabel ==
  binResult # NoResult =>
    LET y == binCall.year
        B == binCall.bin
        k == binResult.key
        label == binResult.label
    IN  /\ k % B = 0
        /\ k <= y /\ y <= k + B - 1
        /\ \A j \in (y - B) .. (y + B) : (j % B = 0 /\ j <= y /\ y <= j + B - 1) => j = k
        /\ IF B = 1
           THEN DashAt(label, 1) = 0 /\ ToNumber(label) = Num(y)
           ELSE /\ DashAt(label, 1) # 0
                /\ ToNumber(BeforeDash(label)) = Num(k)
                /\ ToNumber(AfterDash(label)) = Num(k + B - 1)

\* a negative year that is not on the bin grid, where flooring and truncating
\* differ, labelled with both ends of its bin
C11_Witness ==
  /\ binResult # NoResult
  /\ binCall.year = -7 /\ binCall.bin = 5
  /\ binResult.key = -10
  /\ binResult.label = <<"-", "1", "0", EnDash, "-", "6">>

-----------------------------------------------------------------------------
(* The single-country charts: CountryTimelineStacked (also the copy in
   WorldMap.tsx), CountryDecadeBoxplot and CountrySeasonalityHeatmap.  A
   JavaScript Map is a sequence of entries in insertion order. *)

OTHER_LABEL == <<"O","t","h","e","r">>

\* eventsByType.slice(0, 5)
TopN == 5

\* d.year >= startYear && d.year <= endYear: false for NaN and the infinities
InYearRange(d, startYear, endYear) ==
  NumberIsFinite(d.year) /\ d.year.num >= startYear * d.year.den
                         /\ d.year.num <= endYear * d.year.den

\* d.iso === countryId || d.country === countryId
perCountryKeep(d, cid) == d.iso = cid \/ d.country = cid

\* the predicate of perCountry.filter(...)
countryKeep(d, types, startYear, endYear) ==
  InYearRange(d, startYear, endYear) /\ d.disasterType \in types

\* d3.rollups(filtered, v => v.length, d => d.disasterType): one [type, count]
\* entry per type, in the order in which the types first occur in the records
RECURSIVE rollupsByType(_, _)
rollupsByType(filtered, n) ==
  IF n = 0 THEN <<>>
  ELSE LET done == rollupsByType(filtered, n - 1)
           t == filtered[n].disasterType
       IN  IF \E i \in 1..Len(done) : done[i].type = t
           THEN [i \in 1..Len(done) |->
                   IF done[i].type = t THEN [done[i] EXCEPT !.count = @ + 1] ELSE done[i]]
           ELSE Append(done, [type |-> t, count |-> 1])

\* eventsByType.sort((a, b) => d3.descending(a[1], b[1])): the sort is stable,
\* so an entry goes behind every entry already placed whose count is at least
\* its own.
RECURSIVE sortByCountDescending(_, _)
sortByCountDescending(entries, n) ==
  IF n = 0 THEN <<>>
  ELSE LET done == sortByCountDescending(entries, n - 1)
           e == entries[n]
           ahead == Cardinality({i \in 1..Len(done) : done[i].count >= e.count})
       IN  SubSeq(done, 1, ahead) \o <<e>> \o SubSeq(done, ahead + 1, Len(done))

\* new Set(eventsByType.slice(0, 5).map(([t]) => t))
topTypesOf(filtered) ==
  LET eventsByType == rollupsByType(filtered, Len(filtered))
      sorted == sortByCountDescending(eventsByType, Len(eventsByType))
  IN  {sorted[i].type : i \in 1..(IF Len(sorted) < TopN THEN Len(sorted) ELSE TopN)}

stackedTypeKey_NeverOther(d, topTypes) == d.disasterType

\* topTypes.has(d.disasterType) ? d.disasterType : OTHER_LABEL
stackedTypeKey(d, topTypes) ==
  IF d.disasterType \in topTypes THEN d.disasterType ELSE OTHER_LABEL

stackedKey_YearOnly(year, typeKey) == NumToStr(year)

\* `${year}__${typeKey}`
stackedKey(year, typeKey) == NumToStr(year) \o <<"_", "_">> \o typeKey

\* byYearType.get(key): the index of the entry, 0 when there is none
MapIndex(entries, key) ==
  IF \E i \in 1..Len(entries) : entries[i].key = key
  THEN CHOOSE i \in 1..Len(entries) : entries[i].key = key
  ELSE 0

\* one iteration of `for (const d of filtered)` in CountryTimelineStacked
stackedStep(byYearType, d, topTypes) ==
  LET typeKey == stackedTypeKey(d, topTypes)
      key == stackedKey(d.year.num, typeKey)
      at == MapIndex(byYearType, key)
      row == IF at # 0 THEN byYearType[at].row
             ELSE [year |-> d.year.num, type |-> typeKey,
                   events |-> 0, deaths |-> 0, affected |-> 0]
      updated == [row EXCEPT !.events = @ + 1,
                             !.deaths = @ + OrZero(d.totalDeaths),
                             !.affected = @ + OrZero(d.totalAffected)]
  IN  IF at # 0 THEN [byYearType EXCEPT ![at].row = updated]
      ELSE Append(byYearType, [key |-> key, row |-> updated])

RECURSIVE stackedAgg(_, _, _)
stackedAgg(filtered, n, topTypes) ==
  IF n = 0 THEN <<>>
  ELSE stackedStep(stackedAgg(filtered, n - 1, topTypes), filtered[n], topTypes)

\* Array.from(new Set(xs)): the distinct members, in order of first occurrence
RECURSIVE Distinct(_)
Distinct(xs) ==
  IF xs = <<>> THEN <<>>
  ELSE LET init == Distinct(SubSeq(xs, 1, Len(xs) - 1))
           x == xs[Len(xs)]
       IN  IF \E i \in 1..Len(init) : init[i] = x THEN init ELSE Append(init, x)

\* xs.sort(d3.ascending) on distinct integers
RECURSIVE SortAscending(_)
SortAscending(S) ==
  IF S = {} THEN <<>>
  ELSE LET lo == CHOOSE x \in S : \A y \in S : x <= y
       IN  <<lo>> \o SortAscending(S \ {lo})

\* agg ? agg[metric] : 0
rowMetric(row, m) ==
  IF m = "events" THEN row.events ELSE IF m = "deaths" THEN row.deaths ELSE row.affected

stackValue(byYearType, year, t, m) ==
  LET at == MapIndex(byYearType, stackedKey(year, t))
  IN  IF at # 0 THEN rowMetric(byYearType[at].row, m) ELSE 0

\* d3.stack().keys(types)(stackInput) with the default order and offset: the
\* point of series i at bucket j is [y0, y1] with y0 the y1 of series i - 1 (0
\* for the first) and y1 = y0 + value
RECURSIVE stackPoint(_, _, _)
stackPoint(stackInput, i, j) ==
  LET y0 == IF i = 1 THEN 0 ELSE stackPoint(stackInput, i - 1, j)[2]
  IN  <<y0, y0 + stackInput[j][i]>>

stackedEmpty ==
  [years |-> <<>>, types |-> <<>>, series |-> <<>>, byYearDetails |-> <<>>, maxValue |-> 0]

\* the useMemo of CountryTimelineStacked
stackedMemo(dt, cid, types, range, m) ==
  IF ~dt.loaded \/ types = {} THEN stackedEmpty
  ELSE
    LET startYear == range[1]
        endYear == range[2]
        keepC(d) == perCountryKeep(d, cid)
        perCountry == SelectSeq(dt.rows, keepC)
        keep(d) == countryKeep(d, types, startYear, endYear)
        filtered == SelectSeq(perCountry, keep)
    IN  IF filtered = <<>> THEN stackedEmpty
        ELSE
          LET topTypes == topTypesOf(filtered)
              byYearType == stackedAgg(filtered, Len(filtered), topTypes)
              years == SortAscending({byYearType[i].row.year : i \in 1..Len(byYearType)})
              typesOut == Distinct([i \in 1..Len(byYearType) |-> byYearType[i].row.type])
              stackInput == [j \in 1..Len(years) |->
                               [i \in 1..Len(typesOut) |->
                                  stackValue(byYearType, years[j], typesOut[i], m)]]
              series == [i \in 1..Len(typesOut) |->
                           [j \in 1..Len(years) |-> stackPoint(stackInput, i, j)]]
              isRowOf(y) == LET test(e) == e.row.year = y IN SelectSeq(byYearType, test)
              details == [j \in 1..Len(years) |->
                            [year |-> years[j],
                             rows |-> [k \in 1..Len(isRowOf(years[j])) |->
                                         isRowOf(years[j])[k].row]]]
          IN  [ years |-> years, types |-> typesOut, series |-> series,
                byYearDetails |-> details,
                maxValue |-> MaxOrZero({series[i][j][2] :
                                          i \in 1..Len(typesOut), j \in 1..Len(years)}) ]

\* x + y, x < y on finite numbers; the denominators are 1 or the 1000 of
\* economicDamageAdj, so the larger one is a common denominator
Plus(x, y) ==
  LET den == IF x.den >= y.den THEN x.den ELSE y.den
  IN  [kind |-> "finite", num |-> x.num * (den \div x.den) + y.num * (den \div y.den),
       den |-> den]
Less(x, y) == x.num * y.den < y.num * x.den

\* x ?? 0
OrZeroNum(x) == IF IsNull(x) THEN Num(0) ELSE x

\* Math.floor(y / 10) * 10
decadeOf(y) == (y \div 10) * 10

\* rowKeyFn of CountrySeasonalityHeatmap
rowKeyFn(y, res) == IF res = "decade" THEN decadeOf(y) ELSE y

\* for (let y = startYear; y <= endYear; y++) rowSet.add(rowKeyFn(y)), sorted
heatmapRows(startYear, endYear, res) ==
  SortAscending({rowKeyFn(y, res) : y \in startYear..endYear})

\* `${rk}-${month}`
heatmapKey(rk, month) == NumToStr(rk) \o <<"-">> \o NumToStr(month)

\* const month = Number(sm); if (!month || month < 1 || month > 12) continue;
\* a null startMonth falls through the ?? chain to undefined, and Number(undefined)
\* is NaN
monthOk(d) ==
  /\ ~IsNull(d.startMonth)
  /\ d.startMonth.num # 0
  /\ ~Less(d.startMonth, Num(1))
  /\ ~Less(Num(12), d.startMonth)

heatmapAdd(d, m) ==
  IF m = "events" THEN Num(1)
  ELSE IF m = "deaths" THEN OrZeroNum(d.totalDeaths)
  ELSE IF m = "affected" THEN OrZeroNum(d.totalAffected)
  ELSE OrZeroNum(d.economicDamageAdj)

\* one iteration of `for (const d of filtered)` in CountrySeasonalityHeatmap
heatmapStep(agg, d, m, res) ==
  IF ~monthOk(d) THEN agg
  ELSE LET key == heatmapKey(rowKeyFn(d.year.num, res), d.startMonth.num)
           add == heatmapAdd(d, m)
           at == MapIndex(agg, key)
       IN  IF at # 0
           THEN [agg EXCEPT ![at].value = Plus(@, add), ![at].events = @ + 1]
           ELSE Append(agg, [key |-> key, value |-> add, events |-> 1])

RECURSIVE heatmapAgg(_, _, _, _)
heatmapAgg(filtered, n, m, res) ==
  IF n = 0 THEN <<>>
  ELSE heatmapStep(heatmapAgg(filtered, n - 1, m, res), filtered[n], m, res)

heatmapCell_ZeroBasedMonth(agg, rk, mo) ==
  LET at == MapIndex(agg, heatmapKey(rk, mo - 1))
  IN  [ rowKey |-> rk, month |-> mo,
        value |-> IF at # 0 THEN agg[at].value ELSE Num(0),
        events |-> IF at # 0 THEN agg[at].events ELSE 0 ]

\* the cell pushed for (rk, m)
heatmapCell(agg, rk, mo) ==
  LET at == MapIndex(agg, heatmapKey(rk, mo))
  IN  [ rowKey |-> rk, month |-> mo,
        value |-> IF at # 0 THEN agg[at].value ELSE Num(0),
        events |-> IF at # 0 THEN agg[at].events ELSE 0 ]

\* maxValue = Math.max(maxValue, value), from 0, over the cells: the largest
\* of 0 and the cell values
heatmapMax(cells) ==
  LET vals == {cells[c].value : c \in 1..Len(cells)} \cup {Num(0)}
  IN  CHOOSE v \in vals : \A w \in vals : ~Less(v, w)

heatmapEmpty == [rows |-> <<>>, cells |-> <<>>, maxValue |-> Num(0)]

\* the useMemo of CountrySeasonalityHeatmap
heatmapMemo(dt, cid, types, range, m, res) ==
  IF ~dt.loaded \/ types = {} THEN heatmapEmpty
  ELSE
    LET startYear == range[1]
        endYear == range[2]
        keepC(d) == perCountryKeep(d, cid)
        perCountry == SelectSeq(dt.rows, keepC)
        keep(d) == countryKeep(d, types, startYear, endYear)
        filtered == SelectSeq(perCountry, keep)
    IN  IF filtered = <<>> THEN heatmapEmpty
        ELSE
          LET rows == heatmapRows(startYear, endYear, res)
              agg == heatmapAgg(filtered, Len(filtered), m, res)
              cells == [c \in 1..(12 * Len(rows)) |->
                          heatmapCell(agg, rows[((c - 1) \div 12) + 1], ((c - 1) % 12) + 1)]
          IN  [rows |-> rows, cells |-> cells, maxValue |-> heatmapMax(cells)]

boxplotDecades_ExclusiveEnd(startYear, endYear) ==
  SortAscending({decadeOf(y) : y \in startYear..(endYear - 1)})

\* for (let y = startYear; y <= endYear; y++) decadeSet.add(Math.floor(y / 10) * 10);
\* Array.from(decadeSet).sort(d3.ascending)
boxplotDecades(startYear, endYear) ==
  SortAscending({decadeOf(y) : y \in startYear..endYear})

\* the value a record has for the boxplot's metric
boxplotValue(d, m) ==
  IF m = "deaths" THEN OrZeroNum(d.totalDeaths)
  ELSE IF m = "affected" THEN OrZeroNum(d.totalAffected)
  ELSE OrZeroNum(d.economicDamageAdj)

boxplotPushes_SkipZeros(value, m) == Less(Num(0), value)

\* if (metric === "economic") { if (value > 0) arr.push(value); } else arr.push(value);
boxplotPushes(value, m) == IF m = "economic" THEN Less(Num(0), value) ELSE TRUE

\* valuesByDecade.get(dec) after the loop over filtered: the pushed values of
\* the records of the decade, in record order
RECURSIVE valuesOfDecade(_, _, _, _)
valuesOfDecade(filtered, n, dec, m) ==
  IF n = 0 THEN <<>>
  ELSE LET before == valuesOfDecade(filtered, n - 1, dec, m)
           d == filtered[n]
           value == boxplotValue(d, m)
       IN  IF decadeOf(d.year.num) = dec /\ boxplotPushes(value, m)
           THEN Append(before, value) ELSE before

\* vals.slice().sort(d3.ascending): a value goes behind every value already
\* placed that is not greater
RECURSIVE sortAscendingNums(_, _)
sortAscendingNums(vals, n) ==
  IF n = 0 THEN <<>>
  ELSE LET done == sortAscendingNums(vals, n - 1)
           v == vals[n]
           ahead == Cardinality({i \in 1..Len(done) : ~Less(v, done[i])})
       IN  SubSeq(done, 1, ahead) \o <<v>> \o SubSeq(done, ahead + 1, Len(done))

\* d3.min(vals), d3.max(vals) on a non-empty list: the first smallest, the
\* first largest
minOf(vals) ==
  vals[CHOOSE i \in 1..Len(vals) :
         /\ \A j \in 1..Len(vals) : ~Less(vals[j], vals[i])
         /\ \A j \in 1..(i - 1) : Less(vals[i], vals[j])]
maxOf(vals) ==
  vals[CHOOSE i \in 1..Len(vals) :
         /\ \A j \in 1..Len(vals) : ~Less(vals[i], vals[j])
         /\ \A j \in 1..(i - 1) : Less(vals[j], vals[i])]

quantileSorted_NoInterpolation(values, quarters) ==
  LET n == Len(values)
  IN  IF n < 2 THEN values[1] ELSE values[(((n - 1) * quarters) \div 4) + 1]

\* d3.quantileSorted(values, p) for p = quarters / 4 in {0.25, 0.5, 0.75} and a
\* non-empty list: values[0] when n < 2, else with i = (n - 1) * p and
\* i0 = floor(i): value0 + (value1 - value0) * (i - i0)
quantileSorted(values, quarters) ==
  LET n == Len(values)
      i4 == (n - 1) * quarters
      i0 == i4 \div 4
      frac4 == i4 % 4
      value0 == values[i0 + 1]
      value1 == values[i0 + 2]
      den == IF value0.den >= value1.den THEN value0.den ELSE value1.den
      v0 == value0.num * (den \div value0.den)
      v1 == value1.num * (den \div value1.den)
  IN  IF n < 2 THEN values[1]
      ELSE [kind |-> "finite", num |-> 4 * v0 + (v1 - v0) * frac4, den |-> 4 * den]

\* the stats entry pushed for one decade
decadeStats(dec, vals) ==
  IF Len(vals) = 0
  THEN [ decade |-> dec, values |-> <<>>, min |-> Num(0), q1 |-> Num(0),
         median |-> Num(0), q3 |-> Num(0), max |-> Num(0) ]
  ELSE [ decade |-> dec, values |-> vals, min |-> minOf(vals),
         q1 |-> quantileSorted(vals, 1), median |-> quantileSorted(vals, 2),
         q3 |-> quantileSorted(vals, 3), max |-> maxOf(vals) ]

\* renderBoxes: if (!s || s.values.length === 0) draws the dashed baseline
\* marker for "no data" and returns, else draws whiskers, box and median
boxMark(s) == IF Len(s.values) = 0 THEN "no data" ELSE "box"

boxplotEmpty == [decades |-> <<>>, stats |-> <<>>, globalMax |-> Num(0)]

\* the useMemo of CountryDecadeBoxplot
boxplotMemo(dt, cid, types, range, m) ==
  IF ~dt.loaded \/ types = {} THEN boxplotEmpty
  ELSE
    LET startYear == range[1]
        endYear == range[2]
        keepC(d) == perCountryKeep(d, cid)
        perCountry == SelectSeq(dt.rows, keepC)
        keep(d) == countryKeep(d, types, startYear, endYear)
        filtered == SelectSeq(perCountry, keep)
        decades == boxplotDecades(startYear, endYear)
        stats == [k \in 1..Len(decades) |->
                    LET pushed == valuesOfDecade(filtered, Len(filtered), decades[k], m)
                    IN  decadeStats(decades[k], sortAscendingNums(pushed, Len(pushed)))]
        maxes == {stats[k].max : k \in 1..Len(decades)} \cup {Num(0)}
    IN  [ decades |-> decades, stats |-> stats,
          \* globalMax = Math.max(globalMax, max), from 0
          globalMax |-> CHOOSE v \in maxes : \A w \in maxes : ~Less(v, w) ]

-----------------------------------------------------------------------------
(* app/countries/[countryId]/TotalEventsCard.tsx (src/unnamed/part_000) *)

totalEventsMatchesType_EmptyIsNone(d, typeSet) == ToLowerCase(d.disasterType) \in typeSet

\* typeSet.size === 0 || typeSet.has(d.disasterType.toLowerCase())
totalEventsMatchesType(d, typeSet) ==
  typeSet = {} \/ ToLowerCase(d.disasterType) \in typeSet

\* the useMemo of filteredEvents
filteredEvents(dt, cid, types, range) ==
  IF ~dt.loaded THEN <<>>
  ELSE
    LET typeSet == {ToLowerCase(ty) : ty \in types}
        idLower == ToLowerCase(cid)
        keep(d) == /\ ToLowerCase(d.country) = idLower
                   /\ totalEventsMatchesType(d, typeSet)
                   /\ InYearRange(d, range[1], range[2])
    IN  SelectSeq(dt.rows, keep)

\* d3.rollups(filteredEvents, v => v.length, d => d.year), sorted by year
yearlyCounts(events) ==
  LET years == SortAscending({events[i].year.num : i \in 1..Len(events)})
  IN  [k \in 1..Len(years) |->
         [year |-> years[k],
          count |-> Cardinality({i \in 1..Len(events) : events[i].year.num = years[k]})]]

\* const totalEvents = filteredEvents.length
totalEvents(dt, cid, types, range) == Len(filteredEvents(dt, cid, types, range))

-----------------------------------------------------------------------------
(* TotalDeathsCard (src/components/CountryComparisonDisasterType.tsx) *)

\* matchesCountry(record, countryId)
matchesCountry(record, cid) ==
  ToLowerCase(record.iso) = ToLowerCase(cid) \/ ToLowerCase(record.country) = ToLowerCase(cid)

totalDeathsEmpty == [totalDeaths |-> Num(0), yearlySeries |-> <<>>]

\* sumDeaths += deaths over the rows, from 0
RECURSIVE sumDeathsOf(_, _)
sumDeathsOf(rows, n) ==
  IF n = 0 THEN Num(0) ELSE Plus(sumDeathsOf(rows, n - 1), rows[n].totalDeaths)

\* the useMemo of TotalDeathsCard
totalDeathsMemo(dt, cid, types, range) ==
  IF types = {} THEN totalDeathsEmpty
  ELSE IF ~dt.loaded \/ Len(dt.rows) = 0 THEN totalDeathsEmpty
  ELSE
    LET keep(d) == /\ matchesCountry(d, cid)
                   /\ InYearRange(d, range[1], range[2])
                   /\ d.disasterType \in types
        filtered == SelectSeq(dt.rows, keep)
        \* if (!Number.isFinite(deaths) || deaths <= 0) continue;
        counted(d) == ~IsNull(d.totalDeaths) /\ Less(Num(0), d.totalDeaths)
        rows == SelectSeq(filtered, counted)
        years == SortAscending({rows[i].year.num : i \in 1..Len(rows)})
        ofYear(y) == LET in(d) == d.year.num = y IN SelectSeq(rows, in)
    IN  IF filtered = <<>> THEN totalDeathsEmpty
        ELSE [ totalDeaths |-> sumDeathsOf(rows, Len(rows)),
               yearlySeries |->
                 [k \in 1..Len(years) |->
                    [year |-> years[k],
                     value |-> sumDeathsOf(ofYear(years[k]), Len(ofYear(years[k])))]] ]

-----------------------------------------------------------------------------
(* src/components/CountrySeverityScatter.tsx *)

severityEmpty == [eventPoints |-> <<>>, yearPoints |-> <<>>, colorDomain |-> <<>>]

\* `${d.iso}-${d.year}-${d.disasterType}-${i}`
eventPointId(d, i) ==
  d.iso \o <<"-">> \o NumToStr(d.year.num) \o <<"-">> \o d.disasterType
        \o <<"-">> \o NumToStr(i)

\* the useMemo of CountrySeverityScatter
severityMemo(dt, cid, types, range) ==
  IF ~dt.loaded \/ types = {} THEN severityEmpty
  ELSE
    LET keepC(d) == perCountryKeep(d, cid)
        perCountry == SelectSeq(dt.rows, keepC)
        keep(d) == countryKeep(d, types, range[1], range[2])
        filtered == SelectSeq(perCountry, keep)
        years == SortAscending({filtered[i].year.num : i \in 1..Len(filtered)})
        ofYear(y) == {i \in 1..Len(filtered) : filtered[i].year.num = y}
        deathsOf(i) == OrZero(filtered[i].totalDeaths)
        affectedOf(i) == OrZero(filtered[i].totalAffected)
    IN  IF filtered = <<>> THEN severityEmpty
        ELSE [ eventPoints |->
                 [i \in 1..Len(filtered) |->
                    [ id |-> eventPointId(filtered[i], i - 1),
                      year |-> filtered[i].year.num,
                      type |-> filtered[i].disasterType,
                      deaths |-> OrZeroNum(filtered[i].totalDeaths),
                      affected |-> OrZeroNum(filtered[i].totalAffected),
                      damage |-> OrZeroNum(filtered[i].economicDamageAdj) ]],
               yearPoints |->
                 [k \in 1..Len(years) |->
                    LET idx == SortAscending(ofYear(years[k]))
                    IN  [ year |-> years[k],
                          events |-> Len(idx),
                          deaths |-> SumSeq([x \in 1..Len(idx) |-> deathsOf(idx[x])]),
                          affected |-> SumSeq([x \in 1..Len(idx) |-> affectedOf(idx[x])]) ]],
               colorDomain |->
                 Distinct([i \in 1..Len(filtered) |-> filtered[i].disasterType]) ]

-----------------------------------------------------------------------------
(* Specifications SpecStacked, SpecBoxplot, SpecHeatmap: the country page
   hands the same countryId, selectedTypes and yearRange to its charts; each
   chart keeps its own metric (and the heatmap its resolution) and commits the
   loaded records to data.  Each specification follows the page and one chart. *)

CountryRow(iso, country, year, month, type, deaths, affected, damage) ==
  [CsvRow(Str(iso), Str(country), Str(NumToStr(year)), Str(type), deaths, affected)
     EXCEPT !.StartMonth = month, !.TotalDamageAdj = damage]

\* Peru has seven types, five of them with two events and two with one event
\* (the volcanic one occurring before the fog one), a negative death toll and
\* start months that are missing, 0 and 13.  Chad has the death tolls 4, 1, 3, 2
\* in the 2000s and two records without deaths in the 1990s.
CountryCsv ==
  << CountryRow(PER, Peru, 2001, Str(<<"3">>), Wildfire, Str(<<"3">>), Str(<<"5">>),
                Str(<<"2","0","0","0">>)),
     CountryRow(PER, Peru, 2001, Str(<<"3">>), Storm, Str(<<"1">>), Str(<<"1">>), Undefined),
     CountryRow(PER, Peru, 2002, Str(<<"1","1">>), VolcanicActivity, Str(<<>>), Str(<<"0">>),
                Undefined),
     CountryRow(PER, Peru, 2001, Str(<<"0">>), Flood, Str(<<"2">>), Undefined, Undefined),
     CountryRow(PER, Peru, 2003, Str(<<"1","3">>), Storm, Str(<<"1">>), Undefined, Undefined),
     CountryRow(PER, Peru, 2004, Undefined, Flood, Str(<<"3">>), Str(<<"2">>), Undefined),
     CountryRow(PER, Peru, 2002, Str(<<"1">>), Fog, Str(<<"1">>), Undefined, Undefined),
     CountryRow(PER, Peru, 2001, Str(<<"1","2">>), Drought, Str(<<"4">>), Str(<<"7">>),
                Str(<<"5","0","0">>)),
     CountryRow(PER, Peru, 2003, Str(<<"3">>), Earthquake, Str(<<"2">>), Undefined, Undefined),
     CountryRow(PER, Peru, 2004, Str(<<"3">>), Drought, Str(<<"-","2">>), Undefined, Undefined),
     CountryRow(PER, Peru, 2005, Str(<<"7">>), Earthquake, Str(<<"1">>), Undefined, Undefined),
     CountryRow(PER, Peru, 2005, Str(<<"3">>), Wildfire, Str(<<>>), Str(<<"1">>), Undefined),
     CountryRow(TCD, Chad, 2000, Str(<<"1">>), Flood, Str(<<"4">>), Str(<<"9">>),
                Str(<<"5","0","0">>)),
     CountryRow(TCD, Chad, 2001, Str(<<"1">>), Flood, Str(<<"1">>), Undefined, Str(<<"0">>)),
     CountryRow(TCD, Chad, 2002, Str(<<"2">>), Storm, Str(<<"3">>), Undefined,
                Str(<<"1",",","5","0","0">>)),
     CountryRow(TCD, Chad, 2003, Str(<<"1">>), Flood, Str(<<"2">>), Undefined, Undefined),
     CountryRow(TCD, Chad, 1995, Str(<<"6">>), Flood, Str(<<>>), Str(<<"0">>), Undefined),
     CountryRow(TCD, Chad, 1996, Str(<<"6">>), Storm, Str(<<"0">>), Undefined, Undefined) >>

\* the whole file, Peru's rows alone, Chad's rows alone
CountryFiles ==
  { CountryCsv, SubSeq(CountryCsv, 1, 12), SubSeq(CountryCsv, 13, Len(CountryCsv)) }

AllTypes == {DISASTER_TYPES[i] : i \in 1..Len(DISASTER_TYPES)}
CountryIds == {Peru, TCD}
CountryTypeChoices ==
  { {}, AllTypes, AllTypes \ {Drought}, {Fog, VolcanicActivity, Flood}, {Flood, Storm} }
CountryYearRanges ==
  { <<YearLo - 10, YearHi>>, <<YearLo, YearHi>>, <<YearLo + 2, YearLo + 2>>,
    <<YearLo + 2, YearLo + 4>>, <<YearHi - 1, YearHi>> }
BoxplotMetrics == {"deaths", "affected", "economic"}
HeatmapMetrics == {"events", "deaths", "affected", "damage"}
Resolutions == {"year", "decade"}

InitCountry ==
  /\ data = NullData
  /\ countryId = Peru
  /\ selectedTypes = AllTypes
  /\ yearRange = <<YearLo, YearHi>>
  /\ metric = "events"
  /\ boxplotMetric = "deaths"
  /\ heatmapMetric = "events"
  /\ resolution = "decade"
  /\ selectedCountries = <<>> /\ binSize = 5
  /\ Idle_loader /\ Idle_num /\ Idle_row /\ Idle_bin /\ Idle_client

\* the load effect's .then: setData(rows)
CountrySetData ==
  /\ ~data.loaded
  /\ \E f \in CountryFiles : data' = Loaded(cleaned(MapRows(f, "emdatData")))
  /\ UNCHANGED <<clientVars, selectedCountries, selectedTypes, yearRange, metric, binSize,
                 loaderVars, numVars, rowVars, binVars, countryVars>>

\* the page re-renders the charts with another countryId
CountryIdChange ==
  /\ countryId' \in CountryIds
  /\ UNCHANGED <<clientVars, boxplotMetric, heatmapMetric, resolution,
                 loaderVars, numVars, rowVars, compareVars, binVars>>

\* ... with another selectedTypes
CountryTypesChange ==
  /\ selectedTypes' \in CountryTypeChoices
  /\ UNCHANGED <<clientVars, data, selectedCountries, yearRange, metric, binSize,
                 loaderVars, numVars, rowVars, binVars, countryVars>>

\* ... with another yearRange
CountryYearRangeChange ==
  /\ yearRange' \in CountryYearRanges
  /\ UNCHANGED <<clientVars, data, selectedCountries, selectedTypes, metric, binSize,
                 loaderVars, numVars, rowVars, binVars, countryVars>>

\* setMetric of CountryTimelineStacked
setStackedMetric(m) ==
  /\ metric' = m
  /\ UNCHANGED <<clientVars, data, selectedCountries, selectedTypes, yearRange, binSize,
                 loaderVars, numVars, rowVars, binVars, countryVars>>

\* setMetric of CountryDecadeBoxplot
setBoxplotMetric(m) ==
  /\ boxplotMetric' = m
  /\ UNCHANGED <<clientVars, countryId, heatmapMetric, resolution,
                 loaderVars, numVars, rowVars, compareVars, binVars>>

\* setMetric of CountrySeasonalityHeatmap
setHeatmapMetric(m) ==
  /\ heatmapMetric' = m
  /\ UNCHANGED <<clientVars, countryId, boxplotMetric, resolution,
                 loaderVars, numVars, rowVars, compareVars, binVars>>

setResolution(r) ==
  /\ resolution' = r
  /\ UNCHANGED <<clientVars, countryId, boxplotMetric, heatmapMetric,
                 loaderVars, numVars, rowVars, compareVars, binVars>>

\* what the page does to every chart
PageStep ==
  \/ CountrySetData
  \/ CountryIdChange
  \/ CountryTypesChange
  \/ CountryYearRangeChange

\* the page and CountryTimelineStacked
NextStacked ==
  \/ PageStep
  \/ \E m \in Metrics : setStackedMetric(m)
SpecStacked == InitCountry /\ [][NextStacked]_vars

\* the page and CountryDecadeBoxplot
NextBoxplot ==
  \/ PageStep
  \/ \E m \in BoxplotMetrics : setBoxplotMetric(m)
SpecBoxplot == InitCountry /\ [][NextBoxplot]_vars

\* the page and CountrySeasonalityHeatmap
NextHeatmap ==
  \/ PageStep
  \/ \E m \in HeatmapMetrics : setHeatmapMetric(m)
  \/ \E r \in Resolutions : setResolution(r)
SpecHeatmap == InitCountry /\ [][NextHeatmap]_vars

\* the countryId of the route: a name or an ISO code, in any letter case
CardCountryIds == {Peru, PER, ToLowerCase(Peru), Chad, TCD, ToLowerCase(TCD)}

\* the page re-renders the cards and charts with another countryId
CardsCountryIdChange ==
  /\ countryId' \in CardCountryIds
  /\ UNCHANGED <<clientVars, boxplotMetric, heatmapMetric, resolution,
                 loaderVars, numVars, rowVars, compareVars, binVars>>

\* the page with TotalEventsCard, TotalDeathsCard and CountrySeverityScatter
NextCards ==
  \/ CountrySetData
  \/ CardsCountryIdChange
  \/ CountryTypesChange
  \/ CountryYearRangeChange
SpecCards == InitCountry /\ [][NextCards]_vars

stacked == stackedMemo(data, countryId, selectedTypes, yearRange, metric)
eventsCard == filteredEvents(data, countryId, selectedTypes, yearRange)
deathsCard == totalDeathsMemo(data, countryId, selectedTypes, yearRange)
scatter == severityMemo(data, countryId, selectedTypes, yearRange)
heatmap == heatmapMemo(data, countryId, selectedTypes, yearRange, heatmapMetric, resolution)
boxplot == boxplotMemo(data, countryId, selectedTypes, yearRange, boxplotMetric)

-----------------------------------------------------------------------------
(* C12 .. C15: the stacked timeline *)

Range(s) == {s[i] : i \in 1..Len(s)}

\* the records the country page's filters select, stated on the record alone
OfCountryInYears(d) ==
  /\ (d.iso = countryId \/ d.country = countryId)
  /\ d.year.kind = "finite" /\ d.year.den = 1
  /\ yearRange[1] <= d.year.num /\ d.year.num <= yearRange[2]
InCountryFilter(d) == OfCountryInYears(d) /\ d.disasterType \in selectedTypes
CountryFiltered == SelectSeq(data.rows, InCountryFilter)

StackedActive == data.loaded /\ selectedTypes # {} /\ CountryFiltered # <<>>

\* the real types that have a layer of their own
KeptTypes(memo) == Range(memo.types) \ {OTHER_LABEL}

\* all aggregate rows of the chart
RECURSIVE Flatten(_)
Flatten(details) ==
  IF details = <<>> THEN <<>> ELSE Head(details).rows \o Flatten(Tail(details))
StackedRows == Flatten(stacked.byYearDetails)

CountOf(rows, t) == Cardinality({i \in 1..Len(rows) : rows[i].disasterType = t})
TypeIndex(t) == CHOOSE i \in 1..Len(DISASTER_TYPES) : DISASTER_TYPES[i] = t

\* the top five by (count descending, place in DISASTER_TYPES ascending)
RankedTop5(rows) ==
  LET present == {rows[i].disasterType : i \in 1..Len(rows)}
      Before(u, v) == \/ CountOf(rows, u) > CountOf(rows, v)
                      \/ (CountOf(rows, u) = CountOf(rows, v) /\ TypeIndex(u) < TypeIndex(v))
  IN  {v \in present : Cardinality({u \in present : Before(u, v)}) < 5}

Reverse(s) == [i \in 1..Len(s) |-> s[Len(s) + 1 - i]]

\* C12: the stacked timeline keeps the five types that come first when the
\* types are ranked by event count, descending, ties in the order of the type
\* enumeration; the kept set depends on the counts only, not on the order of
\* the records.
C12_TieBreakByEnumeration ==
  StackedActive =>
    /\ KeptTypes(stacked) = RankedTop5(CountryFiltered)
    /\ KeptTypes(stacked)
         = KeptTypes(stackedMemo([data EXCEPT !.rows = Reverse(data.rows)], countryId,
                                 selectedTypes, yearRange, metric))

Delta(d, field) ==
  IF field = "events" THEN 1
  ELSE IF field = "deaths" THEN (IF d.totalDeaths.kind = "null" THEN 0 ELSE d.totalDeaths.num)
  ELSE (IF d.totalAffected.kind = "null" THEN 0 ELSE d.totalAffected.num)

RowField(r, field) ==
  IF field = "events" THEN r.events ELSE IF field = "deaths" THEN r.deaths ELSE r.affected

\* C13: at most 5 real types have their own layer; the rows of every layer are
\* real types or "Other"; per year, the "Other" row holds the events, deaths
\* and affected of exactly the filtered records whose type is not kept, a kept
\* type's row those of its own records; and all rows together add up to the
\* totals over all filtered records.
C13_TopNPlusOtherConservation ==
  StackedActive =>
    LET kept == KeptTypes(stacked)
        rows == StackedRows
        recs == CountryFiltered
        Goes(d, r) == /\ d.year.num = r.year
                      /\ IF r.type = OTHER_LABEL THEN d.disasterType \notin kept
                         ELSE d.disasterType = r.type
    IN  /\ Cardinality(kept) <= 5
        /\ \A i \in 1..Len(recs) :
             Cardinality({k \in 1..Len(rows) : Goes(recs[i], rows[k])}) = 1
        /\ \A field \in Metrics :
             /\ \A k \in 1..Len(rows) :
                  RowField(rows[k], field)
                    = SumSeq([i \in 1..Len(recs) |->
                                IF Goes(recs[i], rows[k]) THEN Delta(recs[i], field) ELSE 0])
             /\ SumSeq([k \in 1..Len(rows) |-> RowField(rows[k], field)])
                  = SumSeq([i \in 1..Len(recs) |-> Delta(recs[i], field)])

\* five kept types and an "Other" row that holds records of two collapsed types
C13_Witness ==
  /\ StackedActive
  /\ Cardinality(KeptTypes(stacked)) = 5
  /\ \E i, j \in 1..Len(CountryFiltered) :
       /\ CountryFiltered[i].disasterType \notin KeptTypes(stacked)
       /\ CountryFiltered[j].disasterType \notin KeptTypes(stacked)
       /\ CountryFiltered[i].disasterType # CountryFiltered[j].disasterType
       /\ CountryFiltered[i].year = CountryFiltered[j].year
       /\ \E k \in 1..Len(StackedRows) :
            /\ StackedRows[k].type = OTHER_LABEL
            /\ StackedRows[k].year = CountryFiltered[i].year.num
            /\ StackedRows[k].events = 2 /\ StackedRows[k].deaths > 0

\* C14: which types keep a layer is decided on the per-type event counts of
\* the records of the country and year range, whatever their type: a type that
\* has a layer of its own is among the five with the most such records, and a
\* selected type that was collapsed is not.
C14_TopNFromUnfilteredByType ==
  StackedActive =>
    LET unfiltered == SelectSeq(data.rows, OfCountryInYears)
        all == {unfiltered[i].disasterType : i \in 1..Len(unfiltered)}
        More(t) == {u \in all : CountOf(unfiltered, u) > CountOf(unfiltered, t)}
        AtLeast(t) == {u \in all \ {t} : CountOf(unfiltered, u) >= CountOf(unfiltered, t)}
        present == {CountryFiltered[i].disasterType : i \in 1..Len(CountryFiltered)}
    IN  /\ \A t \in KeptTypes(stacked) : Cardinality(More(t)) < 5
        /\ \A t \in present \ KeptTypes(stacked) : Cardinality(AtLeast(t)) >= 5

\* the value the chart shows for a type at a year: its row's metric, else 0
ShownValue(rows, y, t) ==
  LET hit == {k \in 1..Len(rows) : rows[k].year = y /\ rows[k].type = t}
  IN  IF hit = {} THEN 0 ELSE RowField(rows[CHOOSE k \in hit : TRUE], metric)

\* C15: at every year bucket, layer i spans from the sum of the values of the
\* layers before it to that sum plus its own value, so the last layer's top is
\* the sum of all values of the bucket; maxValue is the largest bucket total.
C15_StackingInvariant ==
  StackedActive =>
    LET memo == stacked
        years == memo.years
        types == memo.types
        rows == Flatten(memo.byYearDetails)
        shown == [j \in 1..Len(years) |->
                    [i \in 1..Len(types) |-> ShownValue(rows, years[j], types[i])]]
        Below(i, j) == SumSeq(SubSeq(shown[j], 1, i - 1))
        totals == [j \in 1..Len(years) |-> SumSeq(shown[j])]
    IN  /\ \A i \in 1..Len(types) : \A j \in 1..Len(years) :
             /\ memo.series[i][j][1] = Below(i, j)
             /\ memo.series[i][j][2] = Below(i, j) + shown[j][i]
        /\ \A j \in 1..Len(years) : memo.series[Len(types)][j][2] = totals[j]
        /\ \E j \in 1..Len(years) : memo.maxValue = totals[j]
        /\ \A j \in 1..Len(years) : memo.maxValue >= totals[j]

-----------------------------------------------------------------------------
(* C16: the grouped matrix of the type-composition comparison *)

\* C16: with data loaded and two countries selected the matrix has one row
\* per entry of DISASTER_TYPES (11 rows), each with two values, one per
\* selected country in selection order; a row is enabled exactly when its type
\* is selected; a disabled row has both values 0, and so has an enabled row's
\* value for a country without matching records.
C16_GroupedMatrix ==
  PairSelected =>
    LET rows == composition.rows
        recs == data.rows
        \* the (type, place of the country) pairs that have a matching record
        matched == {<<recs[n].disasterType, IF MatchesFirst(recs[n]) THEN 1 ELSE 2>> :
                      n \in {i \in 1..Len(recs) : InFilter(recs[i])}}
    IN  /\ Len(rows) = 11
        /\ \A i \in 1..Len(DISASTER_TYPES) :
             Cardinality({k \in 1..Len(rows) : rows[k].type = DISASTER_TYPES[i]}) = 1
        /\ \A k \in 1..Len(rows) :
             /\ Len(rows[k].values) = 2
             /\ \A c \in 1..2 : rows[k].values[c].country = selectedCountries[c]
             /\ rows[k].enabled <=> rows[k].type \in selectedTypes
             /\ ~rows[k].enabled => \A c \in 1..2 : rows[k].values[c].value = 0
             /\ \A c \in 1..2 :
                  <<rows[k].type, c>> \notin matched => rows[k].values[c].value = 0

\* an enabled row with events for one country and an explicit 0 for the other,
\* next to a disabled row of a type that has records, and the empty selection
C16_Witness ==
  /\ PairSelected
  /\ \E k, n \in 1..Len(composition.rows) :
       /\ composition.rows[k].enabled
       /\ composition.rows[k].values[1].value > 0 /\ composition.rows[k].values[2].value = 0
       /\ ~composition.rows[n].enabled
       /\ \E i \in 1..Len(data.rows) : data.rows[i].disasterType = composition.rows[n].type
  /\ Len(compositionMemo(data, selectedCountries, {}, yearRange, metric).rows) = 11

-----------------------------------------------------------------------------
(* C17: composite aggregation keys *)

\* the compare page's chart, given the page's country and the other country
\* of the file
PairOfCountries == <<countryId, IF countryId = Peru THEN TCD ELSE Peru>>

\* numeric equality of a finite number and an integer sum of num/den terms
SumNum(xs) == SumSeq([i \in 1..Len(xs) |-> xs[i].num * (1000 \div xs[i].den)])
EqualsSum(x, xs) == x.num * 1000 = SumNum(xs) * x.den

-----------------------------------------------------------------------------
(* Decade boxplot: claims C18, C19, C20 (SpecBoxplot) *)

BoxplotActive == data.loaded /\ selectedTypes # {}

\* a number of the boxplot times 4000 (denominators are 1, 4, 1000 or 4000)
Times4000(x) == x.num * (4000 \div x.den)

\* the field the boxplot's metric reads from a record, null read as 0, times 4000
SampleOf(d) ==
  LET f == IF boxplotMetric = "deaths" THEN d.totalDeaths
           ELSE IF boxplotMetric = "affected" THEN d.totalAffected
           ELSE d.economicDamageAdj
  IN  IF IsNull(f) THEN 0 ELSE Times4000(f)

\* the matching records that contribute a value to the decade dec, by index
ContributorsOf(dec) ==
  {n \in 1..Len(CountryFiltered) :
     /\ (CountryFiltered[n].year.num \div 10) * 10 = dec
     /\ boxplotMetric = "economic" => SampleOf(CountryFiltered[n]) > 0}

\* C18: for every decade whose sample is non-empty, min <= q1 <= median <= q3
\* <= max, where min and max are the smallest and largest sampled values, the
\* sample is kept in ascending order, and the quantile for p is the value at
\* index p*(n-1) of the sorted sample, linearly interpolated between the two
\* neighbouring values when the index is fractional.
C18_QuantileMonotonicity ==
  BoxplotActive =>
    \A k \in 1..Len(boxplot.stats) :
      LET s == boxplot.stats[k]
          n == Len(s.values)
          a == [i \in 1..n |-> Times4000(s.values[i])]
          \* 4 * (the quantile for p = quarters / 4, times 4000)
          Quantile4(quarters) ==
            LET lo == ((n - 1) * quarters) \div 4
                part == ((n - 1) * quarters) % 4
                hi == IF part = 0 THEN lo ELSE lo + 1
            IN  4 * a[lo + 1] + part * (a[hi + 1] - a[lo + 1])
      IN  n > 0 =>
            /\ \A i, j \in 1..n : i < j => a[i] <= a[j]
            /\ \A i \in 1..n : Times4000(s.min) <= a[i] /\ a[i] <= Times4000(s.max)
            /\ \E i \in 1..n : Times4000(s.min) = a[i]
            /\ \E i \in 1..n : Times4000(s.max) = a[i]
            /\ Times4000(s.min) <= Times4000(s.q1)
            /\ Times4000(s.q1) <= Times4000(s.median)
            /\ Times4000(s.median) <= Times4000(s.q3)
            /\ Times4000(s.q3) <= Times4000(s.max)
            /\ 4 * Times4000(s.q1) = Quantile4(1)
            /\ 4 * Times4000(s.median) = Quantile4(2)
            /\ 4 * Times4000(s.q3) = Quantile4(3)

\* the sample 1, 2, 3, 4 of a decade, unsorted in the records: q1 is 1.75, the
\* median 2.5 and q3 3.25
C18_Witness ==
  /\ BoxplotActive
  /\ \E k \in 1..Len(boxplot.stats) :
       LET s == boxplot.stats[k]
       IN  /\ Len(s.values) = 4
           /\ [i \in 1..4 |-> Times4000(s.values[i])] = <<4000, 8000, 12000, 16000>>
           /\ Times4000(s.q1) = 7000
           /\ Times4000(s.median) = 10000
           /\ Times4000(s.q3) = 13000
           /\ \E x, y \in ContributorsOf(s.decade) :
                x < y /\ SampleOf(CountryFiltered[x]) > SampleOf(CountryFiltered[y])

\* C19: a decade's stats entry has an empty values list, and is drawn as the
\* "no data" marker, exactly when no matching record contributed a value to
\* the decade, and then its five statistics are 0; for the deaths and affected
\* metrics every matching record of the decade contributes exactly one value,
\* null counted as 0, so a decade whose records all have value 0 has a
\* non-empty values list and is drawn as a box.
C19_EmptySampleVersusAllZero ==
  BoxplotActive =>
    \A k \in 1..Len(boxplot.stats) :
      LET s == boxplot.stats[k]
          from == ContributorsOf(s.decade)
          inDecade == {n \in 1..Len(CountryFiltered) :
                         (CountryFiltered[n].year.num \div 10) * 10 = s.decade}
      IN  /\ s.values = <<>> <=> from = {}
          /\ boxMark(s) = "no data" <=> from = {}
          /\ from = {} =>
               /\ s.min.num = 0 /\ s.q1.num = 0 /\ s.median.num = 0
               /\ s.q3.num = 0 /\ s.max.num = 0
          /\ boxplotMetric \in {"deaths", "affected"} =>
               /\ Len(s.values) = Cardinality(inDecade)
               /\ \A v \in {SampleOf(CountryFiltered[n]) : n \in inDecade} :
                    Cardinality({i \in 1..Len(s.values) : Times4000(s.values[i]) = v})
                      = Cardinality({n \in inDecade : SampleOf(CountryFiltered[n]) = v})
               /\ inDecade # {} => boxMark(s) = "box"

\* one decade without any matching record next to a decade whose two records
\* have a null and a zero death toll
C19_Witness ==
  /\ BoxplotActive /\ boxplotMetric = "deaths"
  /\ \E k, l \in 1..Len(boxplot.stats) :
       LET s == boxplot.stats[k]
           z == boxplot.stats[l]
       IN  /\ s.values = <<>> /\ boxMark(s) = "no data"
           /\ Len(z.values) = 2 /\ boxMark(z) = "box"
           /\ \A i \in 1..2 : z.values[i].num = 0
           /\ z.max.num = 0
           /\ \E n \in ContributorsOf(z.decade) : IsNull(CountryFiltered[n].totalDeaths)

\* C20: whenever data is loaded and at least one type is selected, the decades
\* list is exactly the ascending list of every floor(y/10)*10 for y in
\* startYear..endYear, with one stats entry per decade even when no record
\* falls in it, and each matching record is sampled into the decade
\* floor(year/10)*10.
C20_DecadeBucketingDense ==
  BoxplotActive =>
    LET decs == boxplot.decades
        expected == {(y \div 10) * 10 : y \in yearRange[1]..yearRange[2]}
    IN  /\ Range(decs) = expected
        /\ Len(decs) = Cardinality(expected)
        /\ \A i, j \in 1..Len(decs) : i < j => decs[i] < decs[j]
        /\ Len(boxplot.stats) = Len(decs)
        /\ \A k \in 1..Len(decs) :
             /\ boxplot.stats[k].decade = decs[k]
             /\ Len(boxplot.stats[k].values) = Cardinality(ContributorsOf(decs[k]))
             /\ \A n \in ContributorsOf(decs[k]) :
                  \E i \in 1..Len(boxplot.stats[k].values) :
                    Times4000(boxplot.stats[k].values[i]) = SampleOf(CountryFiltered[n])
        /\ \A n \in 1..Len(CountryFiltered) :
             (CountryFiltered[n].year.num \div 10) * 10 \in expected

\* three decades for a year range that ends in the middle of a decade, the
\* middle one without a record, the last one sampled
C20_Witness ==
  /\ BoxplotActive
  /\ Len(boxplot.decades) = 3
  /\ yearRange[1] % 10 # 0 /\ yearRange[2] % 10 # 9
  /\ boxplot.stats[2].values = <<>>
  /\ Len(boxplot.stats[3].values) > 1
  /\ ContributorsOf(boxplot.decades[2]) = {}

-----------------------------------------------------------------------------
(* Seasonality heatmap: claim C21 (SpecHeatmap) *)

HeatmapActive == data.loaded /\ selectedTypes # {} /\ CountryFiltered # <<>>

\* startMonth is one of the values 1, ..., 12
ValidMonth(d) ==
  /\ ~IsNull(d.startMonth)
  /\ d.startMonth.kind = "finite" /\ d.startMonth.den = 1
  /\ d.startMonth.num \in 1..12

\* the row a year belongs to at the current resolution
RowOfYear(y) == IF resolution = "decade" THEN (y \div 10) * 10 ELSE y

-----------------------------------------------------------------------------
(* Empty type selection: claim C22 (SpecCards) *)

\* the records of the country, by name in any letter case, within the year
\* range, whatever their type
OfCountryNameInYears ==
  {n \in 1..Len(data.rows) :
     /\ ToLowerCase(data.rows[n].country) = ToLowerCase(countryId)
     /\ yearRange[1] <= data.rows[n].year.num
     /\ data.rows[n].year.num <= yearRange[2]}

\* C22: with an empty selected-type list the stacked timeline, the boxplot,
\* the heatmap, the scatter, the diverging timeline, the raincloud and the
\* total-deaths card return their empty result whatever the records, while the
\* total-events card counts the events of all types for the country and year
\* range.
C22_EmptyTypeSelectionPerPipeline ==
  selectedTypes = {} =>
    /\ \A m \in Metrics :
         stackedMemo(data, countryId, selectedTypes, yearRange, m) = stackedEmpty
    /\ \A m \in BoxplotMetrics :
         boxplotMemo(data, countryId, selectedTypes, yearRange, m) = boxplotEmpty
    /\ \A m \in HeatmapMetrics : \A r \in Resolutions :
         heatmapMemo(data, countryId, selectedTypes, yearRange, m, r) = heatmapEmpty
    /\ scatter = severityEmpty
    /\ \A m \in Metrics :
         /\ divergingMemo(data, PairOfCountries, selectedTypes, yearRange, m, binSize)
              = divergingEmpty
         /\ raincloudMemo(data, PairOfCountries, selectedTypes, yearRange, m, binSize)
              = raincloudEmpty
    /\ deathsCard = totalDeathsEmpty
    /\ Len(eventsCard) = Cardinality(OfCountryNameInYears)
    /\ \A i \in 1..Len(eventsCard) :
         \E n \in OfCountryNameInYears : eventsCard[i] = data.rows[n]

\* no type selected, and the total-events card counts events of more than one
\* type that the other views show once all types are selected
C22_Witness ==
  /\ data.loaded /\ selectedTypes = {}
  /\ Len(eventsCard) > 1
  /\ \E i, j \in 1..Len(eventsCard) : eventsCard[i].disasterType # eventsCard[j].disasterType
  /\ stackedMemo(data, countryId, AllTypes, yearRange, "events") # stackedEmpty
  /\ totalDeathsMemo(data, countryId, AllTypes, yearRange).totalDeaths.num > 0

-----------------------------------------------------------------------------
(* CompareCountriesClient (src/components/CountryTimelineStacked.tsx): the
   year range.  Specification SpecYears *)

MIN_YEAR == 1900
MAX_YEAR == 2025

\* x < y on JavaScript numbers other than NaN
JsLess(x, y) ==
  IF x.kind = "Infinity" THEN x.num < 0 /\ ~(y.kind = "Infinity" /\ y.num < 0)
  ELSE IF y.kind = "Infinity" THEN y.num > 0
  ELSE Less(x, y)

\* Math.max(x, y), Math.min(x, y): NaN when an argument is NaN
MathMax(x, y) == IF NumberIsNaN(x) \/ NumberIsNaN(y) THEN NaN ELSE IF JsLess(x, y) THEN y ELSE x
MathMin(x, y) == IF NumberIsNaN(x) \/ NumberIsNaN(y) THEN NaN ELSE IF JsLess(y, x) THEN y ELSE x

\* the numbers handed to updateStartYear and updateEndYear: below, at, within
\* and above [MIN_YEAR, MAX_YEAR], a fraction, the infinities and NaN
YearArgs ==
  {NaN, PosInf, NegInf, Divide(Num(3901), 2)}
    \cup {Num(v) : v \in {MIN_YEAR - 1, MIN_YEAR, 1950, 1975, 2000, MAX_YEAR, MAX_YEAR + 1}}

InitYears ==
  /\ yearRange = <<Num(MIN_YEAR), Num(MAX_YEAR)>>
  /\ yearCall = NoYearCall
  /\ renderedCountries = <<>> /\ selectCall = NoSelectCall /\ kpi = <<>> /\ runs = <<>>
  /\ data = NullData /\ selectedCountries = <<>> /\ selectedTypes = {}
  /\ metric = "events" /\ binSize = 5
  /\ Idle_loader /\ Idle_num /\ Idle_row /\ Idle_bin /\ Idle_country

updateStartYear_NoUpperClamp(value) ==
  /\ yearRange' = <<MathMax(Num(MIN_YEAR), value), yearRange[2]>>
  /\ yearCall' = [fn |-> "updateStartYear", value |-> value]
  /\ UNCHANGED <<data, selectedCountries, selectedTypes, metric, binSize, renderedCountries,
                 selectCall, kpi, runs,
                 loaderVars, numVars, rowVars, binVars, countryVars>>

\* setYearRange(([_, end]) => [Math.max(MIN_YEAR, Math.min(value, end)), end])
updateStartYear(value) ==
  /\ yearRange' = <<MathMax(Num(MIN_YEAR), MathMin(value, yearRange[2])), yearRange[2]>>
  /\ yearCall' = [fn |-> "updateStartYear", value |-> value]
  /\ UNCHANGED <<data, selectedCountries, selectedTypes, metric, binSize, renderedCountries,
                 selectCall, kpi, runs,
                 loaderVars, numVars, rowVars, binVars, countryVars>>

\* setYearRange(([start, _]) => [start, Math.min(MAX_YEAR, Math.max(value, start))])
updateEndYear(value) ==
  /\ yearRange' = <<yearRange[1], MathMin(Num(MAX_YEAR), MathMax(value, yearRange[1]))>>
  /\ yearCall' = [fn |-> "updateEndYear", value |-> value]
  /\ UNCHANGED <<data, selectedCountries, selectedTypes, metric, binSize, renderedCountries,
                 selectCall, kpi, runs,
                 loaderVars, numVars, rowVars, binVars, countryVars>>

NextYears ==
  \/ \E value \in YearArgs : updateStartYear(value)
  \/ \E value \in YearArgs : updateEndYear(value)
SpecYears == InitYears /\ [][NextYears]_vars

-----------------------------------------------------------------------------
(* Claim C24 (SpecYears) *)

\* 1900 <= start <= end <= 2025
YearRangeOrdered ==
  /\ NumberIsFinite(yearRange[1]) /\ NumberIsFinite(yearRange[2])
  /\ ~Less(yearRange[1], Num(MIN_YEAR))
  /\ ~Less(yearRange[2], yearRange[1])
  /\ ~Less(Num(MAX_YEAR), yearRange[2])

\* updateStartYear leaves end unchanged and updateEndYear leaves start unchanged
YearUpdateFrame ==
  /\ yearCall'.fn = "updateStartYear" => yearRange'[2] = yearRange[2]
  /\ yearCall'.fn = "updateEndYear" => yearRange'[1] = yearRange[1]

\* C24 as stated: starting from [1900, 2025], after any sequence of
\* updateStartYear(v) and updateEndYear(v) calls with arbitrary numeric v, the
\* state satisfies 1900 <= start <= end <= 2025, updateStartYear leaves end
\* unchanged and updateEndYear leaves start unchanged.
C24_YearRangeInvariant == [](YearRangeOrdered) /\ [][YearUpdateFrame]_vars

\* C24, amended: the same for every v other than NaN: from a state with
\* 1900 <= start <= end <= 2025 a call with such a v leads to a state with
\* 1900 <= start <= end <= 2025, and the initial state is one; the other bound
\* is left unchanged by every call.
C24_YearRangeInvariantExceptNaN ==
  /\ YearRangeOrdered
  /\ [][ /\ YearUpdateFrame
         /\ (YearRangeOrdered /\ ~NumberIsNaN(yearCall'.value)) => YearRangeOrdered' ]_vars

\* updateStartYear(Infinity) with an end below MAX_YEAR: the start is clamped
\* to the end
C24_Witness ==
  /\ yearCall = [fn |-> "updateStartYear", value |-> PosInf]
  /\ yearRange = <<Num(1975), Num(1975)>>

-----------------------------------------------------------------------------
(* CompareCountriesClient: the country selection.  Specification SpecSelect *)

\* the mapCountriesList prop
mapCountriesList == <<Peru, Chad, Mali>>

\* prev.includes(type)
Includes(xs, x) == \E i \in 1..Len(xs) : xs[i] = x

\* setSelectedCountries(prev => prev.includes(type) ? prev.filter(t => t !== type)
\*                                                  : [...prev, type])
toggleCountry(prev, type) ==
  IF Includes(prev, type)
  THEN LET other(c) == c # type IN SelectSeq(prev, other)
  ELSE Append(prev, type)

InitSelect ==
  /\ selectedCountries = <<>>
  /\ renderedCountries = <<>>
  /\ selectCall = NoSelectCall
  /\ yearCall = NoYearCall /\ kpi = <<>> /\ runs = <<>>
  /\ data = NullData /\ selectedTypes = {} /\ yearRange = <<YearLo, YearHi>>
  /\ metric = "events" /\ binSize = 5
  /\ Idle_loader /\ Idle_num /\ Idle_row /\ Idle_bin /\ Idle_country

handleCountrySelect_NoGuard(country) ==
  /\ selectedCountries' = toggleCountry(selectedCountries, country)
  /\ selectCall' = [fn |-> "handleCountrySelect", country |-> country]
  /\ UNCHANGED <<data, selectedTypes, yearRange, metric, binSize, renderedCountries,
                 yearCall, kpi, runs, loaderVars, numVars, rowVars, binVars, countryVars>>

\* the click handler of a country chip: the guard reads the selectedCountries of
\* the render the handler was created in, the updater the current state
handleCountrySelect(country) ==
  /\ selectedCountries' =
       IF Len(renderedCountries) < 2 \/ Includes(renderedCountries, country)
       THEN toggleCountry(selectedCountries, country)
       ELSE selectedCountries
  /\ selectCall' = [fn |-> "handleCountrySelect", country |-> country]
  /\ UNCHANGED <<data, selectedTypes, yearRange, metric, binSize, renderedCountries,
                 yearCall, kpi, runs, loaderVars, numVars, rowVars, binVars, countryVars>>

\* onClick={() => setSelectedCountries([])}
ClearSelection ==
  /\ selectedCountries' = <<>>
  /\ selectCall' = [fn |-> "clear", country |-> <<>>]
  /\ UNCHANGED <<data, selectedTypes, yearRange, metric, binSize, renderedCountries,
                 yearCall, kpi, runs, loaderVars, numVars, rowVars, binVars, countryVars>>

\* React re-renders the component: the handlers now close over the current state
Rerender ==
  /\ renderedCountries # selectedCountries
  /\ renderedCountries' = selectedCountries
  /\ selectCall' = [fn |-> "render", country |-> <<>>]
  /\ UNCHANGED <<data, selectedCountries, selectedTypes, yearRange, metric, binSize,
                 yearCall, kpi, runs, loaderVars, numVars, rowVars, binVars, countryVars>>

NextSelect ==
  \/ \E i \in 1..Len(mapCountriesList) : handleCountrySelect(mapCountriesList[i])
  \/ ClearSelection
  \/ Rerender
SpecSelect == InitSelect /\ [][NextSelect]_vars

-----------------------------------------------------------------------------
(* Claim C26 (SpecSelect) *)

\* at most 2 entries and no duplicates
SelectionBounded ==
  /\ Len(selectedCountries) <= 2
  /\ \A i, j \in 1..Len(selectedCountries) :
       selectedCountries[i] = selectedCountries[j] => i = j

\* what a click on a chip does: a selected country is removed, an unselected
\* one is added only when fewer than 2 are selected
ClickEffect ==
  selectCall'.fn = "handleCountrySelect" =>
    LET c == selectCall'.country
        rest == {i \in 1..Len(selectedCountries) : selectedCountries[i] # c}
    IN  IF Includes(selectedCountries, c)
        THEN /\ ~Includes(selectedCountries', c)
             /\ Len(selectedCountries') = Cardinality(rest)
             /\ \A i \in rest : Includes(selectedCountries', selectedCountries[i])
        ELSE IF Len(selectedCountries) < 2
             THEN selectedCountries' = selectedCountries \o <<c>>
             ELSE selectedCountries' = selectedCountries

\* C26 as stated: after any sequence of country-chip clicks and clear actions,
\* including clicks handled against a not-yet-re-rendered selection,
\* selectedCountries holds at most 2 entries and no duplicates; clicking a
\* selected country removes it, and clicking an unselected country adds it
\* only when fewer than 2 are selected.
C26_SelectionInvariant == [](SelectionBounded) /\ [][ClickEffect]_vars

\* C26, amended: the same for clicks handled by the handlers of the render
\* that shows the current selection: such a click, and every clear action,
\* keeps at most 2 entries without duplicates, removes a selected country and
\* adds an unselected one only when fewer than 2 are selected.
C26_SelectionInvariantWhenRendered ==
  /\ SelectionBounded
  /\ [][ (SelectionBounded /\ renderedCountries = selectedCountries) =>
           (SelectionBounded' /\ ClickEffect) ]_vars

\* with two countries selected and rendered, the click on a third one was
\* ignored
C26_Witness ==
  /\ Len(selectedCountries) = 2
  /\ renderedCountries = selectedCountries
  /\ selectCall.fn = "handleCountrySelect"
  /\ ~Includes(selectedCountries, selectCall.country)

-----------------------------------------------------------------------------
(* ContinentKPIOverview (src/components/CountryCompareTimelineDiverging.tsx,
   from line 506).  Specification SpecKpi *)

CONTINENTS == <<"Africa", "Americas", "Asia", "Europe", "Oceania", "Other">>

\* String.prototype.includes
StrIncludes(s, sub) ==
  \E i \in 0..(Len(s) - Len(sub)) : SubSeq(s, i + 1, i + Len(sub)) = sub

africa  == <<"a","f","r","i","c","a">>
americ  == <<"a","m","e","r","i","c">>
asia    == <<"a","s","i","a">>
europe  == <<"e","u","r","o","p","e">>
oceania == <<"o","c","e","a","n","i","a">>

\* inferContinent; inferContinentFromRecord of src/lib/continent.ts is the same
inferContinent(r) ==
  LET region == ToLowerCase(Trim(r.region))
      subregion == ToLowerCase(Trim(r.subregion))
  IN  IF StrIncludes(region, africa) THEN "Africa"
      ELSE IF StrIncludes(region, americ) THEN "Americas"
      ELSE IF StrIncludes(region, asia) THEN "Asia"
      ELSE IF StrIncludes(region, europe) THEN "Europe"
      ELSE IF StrIncludes(region, oceania) THEN "Oceania"
      ELSE IF StrIncludes(subregion, africa) THEN "Africa"
      ELSE IF StrIncludes(subregion, americ) THEN "Americas"
      ELSE IF StrIncludes(subregion, asia) THEN "Asia"
      ELSE IF StrIncludes(subregion, europe) THEN "Europe"
      ELSE IF StrIncludes(subregion, oceania) THEN "Oceania"
      ELSE "Other"

\* typeof v === "number" && Number.isFinite(v) ? v : 0
safeNum(v) == IF NumberIsFinite(v) THEN v ELSE Num(0)

\* the useMemo of yearBounds: Math.min(...ys) and Math.max(...ys) over the
\* finite years of the records, 1900 and 2025 when there is none
yearBounds(allData) ==
  LET rows == allData.rows
      ys == {j \in 1..Len(rows) : NumberIsFinite(rows[j].year)}
      lo == CHOOSE i \in ys : \A j \in ys : ~Less(rows[j].year, rows[i].year)
      hi == CHOOSE i \in ys : \A j \in ys : ~Less(rows[i].year, rows[j].year)
  IN  [ minY |-> IF ys # {} THEN rows[lo].year ELSE Num(1900),
        maxY |-> IF ys # {} THEN rows[hi].year ELSE Num(2025) ]

\* the useMemo of filtered: d.year >= startYear && d.year <= endYear
kpiFiltered(allData, range) ==
  IF ~allData.loaded \/ Len(allData.rows) = 0 THEN <<>>
  ELSE LET keep(d) == /\ ~NumberIsNaN(d.year)
                      /\ ~JsLess(d.year, range[1]) /\ ~JsLess(range[2], d.year)
       IN  SelectSeq(allData.rows, keep)

\* the useMemo of yearList: for (let y = lo; y <= hi; y++) arr.push(y), on
\* finite lo and hi
yearList(range) ==
  LET lo == range[1]
      hi == range[2]
      steps == IF Less(hi, lo) THEN 0
               ELSE ((hi.num * lo.den - lo.num * hi.den) \div (hi.den * lo.den)) + 1
  IN  [k \in 1..steps |-> Plus(lo, Num(k - 1))]

\* what a record adds for the metric m
kpiAdd(r, m) ==
  IF m = "events" THEN Num(1)
  ELSE IF m = "deaths" THEN safeNum(r.totalDeaths)
  ELSE IF m = "affected" THEN safeNum(r.totalAffected)
  ELSE safeNum(r.economicDamageAdj)

\* sum of kpiAdd over the records rs[1..n]
RECURSIVE kpiSum(_, _, _)
kpiSum(rs, n, m) == IF n = 0 THEN Num(0) ELSE Plus(kpiSum(rs, n - 1, m), kpiAdd(rs[n], m))

\* getMain(r)
getMain(r, m) ==
  IF m = "events" THEN r.events ELSE IF m = "deaths" THEN r.deaths
  ELSE IF m = "affected" THEN r.affected ELSE r.damage

\* out.sort((a, b) => getMain(b) - getMain(a)): stable, descending
RECURSIVE sortByMainDescending(_, _, _)
sortByMainDescending(out, n, m) ==
  IF n = 0 THEN <<>>
  ELSE LET done == sortByMainDescending(out, n - 1, m)
           e == out[n]
           ahead == Cardinality({i \in 1..Len(done) : ~Less(getMain(done[i], m), getMain(e, m))})
       IN  SubSeq(done, 1, ahead) \o <<e>> \o SubSeq(done, ahead + 1, Len(done))

\* the useMemo of byContinent, without the sparkPath string drawn from spark:
\* one row per entry of CONTINENTS, filled by the loop over filtered (a record
\* adds to spark[j] when idx.get(r.year) is j, that is when its year is
\* yearList[j]), then sorted
byContinent(filtered, years, m) ==
  LET of(c) == LET is(r) == inferContinent(r) = c IN SelectSeq(filtered, is)
      at(rs, y) == LET in(r) == NumEq(r.year, y) IN SelectSeq(rs, in)
      row(c) ==
        LET rs == of(c)
        IN  [ continent |-> c,
              events |-> Num(Len(rs)),
              deaths |-> kpiSum(rs, Len(rs), "deaths"),
              affected |-> kpiSum(rs, Len(rs), "affected"),
              damage |-> kpiSum(rs, Len(rs), "damage"),
              spark |-> [j \in 1..Len(years) |->
                           kpiSum(at(rs, years[j]), Len(at(rs, years[j])), m)] ]
      rows == [k \in 1..Len(CONTINENTS) |-> row(CONTINENTS[k])]
  IN  sortByMainDescending(rows, Len(rows), m)

\* the useMemo of totals
kpiTotals(filtered) ==
  [ events |-> Num(Len(filtered)),
    deaths |-> kpiSum(filtered, Len(filtered), "deaths"),
    affected |-> kpiSum(filtered, Len(filtered), "affected"),
    damage |-> kpiSum(filtered, Len(filtered), "damage") ]

\* ---- inputs

KpiRow(region, subregion, year, deaths, affected, damage) ==
  [CsvRow(Str(<<"X">>), Str(<<"X">>), Str(year), Str(Flood), deaths, affected)
     EXCEPT !.Region = region, !.Subregion = subregion, !.TotalDamageAdj = damage]

KpiCsv ==
  << KpiRow(Str(<<"A","f","r","i","c","a">>), Undefined, <<"2","0","0","1">>, Str(<<"3">>), Str(<<"5">>),
            Str(<<"2","0","0","0">>)),
     KpiRow(Str(<<"A","m","e","r","i","c","a","s">>), Str(<<"A","s","i","a">>), <<"2","0","0","2">>,
            Str(<<"1">>), Undefined, Undefined),
     KpiRow(Undefined, Str(<<"A","s","i","a">>), <<"2","0","0","1">>, Undefined, Str(<<"2">>),
            Str(<<"5","0","0">>)),
     KpiRow(Str(<<"A","s","i","a">>), Str(<<"E","u","r","o","p","e">>), <<"2","0","0","3">>, Str(<<"2">>),
            Str(<<"1">>), Undefined),
     KpiRow(Str(<<" ","E","U","R","O","P","E"," ">>), Undefined, <<"2","0","0","3">>, Str(<<"4">>),
            Str(<<"0">>), Str(<<"1",",","5","0","0">>)),
     KpiRow(Undefined, Undefined, <<"2","0","0","4">>, Str(<<"1">>), Str(<<"1">>), Undefined),
     KpiRow(Str(<<"O","c","e","a","n","i","a">>), Undefined, <<"2","0","0","1">>, Str(<<"2">>), Undefined,
            Undefined),
     KpiRow(Str(<<"P","o","l","a","r">>), Str(<<"A","f","r","i","c","a">>), <<"2","0","0","2">>,
            Str(<<"1">>), Str(<<"3">>), Undefined),
     KpiRow(Str(<<"A","s","i","a">>), Undefined, <<"2","0","0","2",".","5">>,
            Str(<<"6">>), Str(<<"2">>), Str(<<"3","0","0","0">>)) >>

\* the record lists getDisasterData may resolve with; the empty one is also what
\* it resolves with when the load fails
KpiFiles == {KpiCsv, SubSeq(KpiCsv, 1, 8), <<KpiCsv[9], KpiCsv[4], KpiCsv[6]>>, <<>>}
\* the fixedYearRange prop: absent, or a pair
KpiFixedRanges == {<<>>, <<Num(2002), Num(2003)>>}
\* the values the year sliders hand to the update functions
KpiYearArgs ==
  {Num(v) : v \in {1899, 1900, 2001, 2002, 2003, 2004, 2005, 2025, 2026}}
    \cup {Divide(Num(20035), 10)}
KpiMetrics == {"events", "deaths", "affected", "damage"}

NoKpiCall == [fn |-> "", value |-> Num(0)]

InitKpi ==
  /\ \E f \in KpiFixedRanges :
       kpi = [ fixedYearRange |-> f,
               allData |-> NullData, loading |-> TRUE, error |-> FALSE,
               metric |-> "events",
               yearRange |-> IF f # <<>> THEN f ELSE <<Num(1900), Num(2025)>>,
               syncPending |-> FALSE,
               call |-> NoKpiCall ]
  /\ yearCall = NoYearCall /\ renderedCountries = <<>> /\ selectCall = NoSelectCall
  /\ runs = <<>>
  /\ Idle_loader /\ Idle_num /\ Idle_row /\ Idle_compare /\ Idle_bin /\ Idle_country

KpiUnchanged ==
  UNCHANGED <<yearCall, renderedCountries, selectCall, runs,
              loaderVars, numVars, rowVars, compareVars, binVars, countryVars>>

\* .then((rows) => { setAllData(rows); setLoading(false); }): the render that
\* follows changes allData, MIN_YEAR and MAX_YEAR, so the sync effect is due.
\* The .catch never runs: the promise of getDisasterData never rejects.
KpiThen ==
  /\ kpi.loading
  /\ \E f \in KpiFiles :
       kpi' = [kpi EXCEPT !.allData = Loaded(cleaned(MapRows(f, "emdatData"))),
                          !.loading = FALSE, !.syncPending = TRUE,
                          !.call = NoKpiCall]
  /\ KpiUnchanged

KpiSync_Skipped ==
  /\ kpi.syncPending
  /\ kpi' = [kpi EXCEPT !.syncPending = FALSE, !.call = [fn |-> "sync", value |-> Num(0)]]
  /\ KpiUnchanged

\* the effect "sync after load / fixedYearRange changes"
KpiSync ==
  /\ kpi.syncPending
  /\ LET b == yearBounds(kpi.allData)
         s == IF NumberIsFinite(kpi.yearRange[1]) THEN kpi.yearRange[1] ELSE b.minY
         e == IF NumberIsFinite(kpi.yearRange[2]) THEN kpi.yearRange[2] ELSE b.maxY
     IN  kpi' = [kpi EXCEPT
                   !.yearRange =
                     IF kpi.fixedYearRange # <<>> THEN kpi.fixedYearRange
                     ELSE << MathMax(b.minY, MathMin(s, e)),
                             MathMin(b.maxY, MathMax(e, s)) >>,
                   !.syncPending = FALSE,
                   !.call = [fn |-> "sync", value |-> Num(0)]]
  /\ KpiUnchanged

\* updateStartYear of ContinentKPIOverview, called by a slider that is disabled
\* while loading or after an error; React runs a pending effect before it
\* handles the next event
kpiUpdateStartYear(value) ==
  /\ ~kpi.loading /\ ~kpi.error /\ ~kpi.syncPending
  /\ LET b == yearBounds(kpi.allData)
         end == kpi.yearRange[2]
     IN  kpi' = [kpi EXCEPT
                   !.yearRange = IF kpi.fixedYearRange # <<>> THEN @
                                 ELSE <<MathMax(b.minY, MathMin(value, end)), end>>,
                   !.call = [fn |-> "updateStartYear", value |-> value]]
  /\ KpiUnchanged

\* updateEndYear of ContinentKPIOverview
kpiUpdateEndYear(value) ==
  /\ ~kpi.loading /\ ~kpi.error /\ ~kpi.syncPending
  /\ LET b == yearBounds(kpi.allData)
         start == kpi.yearRange[1]
     IN  kpi' = [kpi EXCEPT
                   !.yearRange = IF kpi.fixedYearRange # <<>> THEN @
                                 ELSE <<start, MathMin(b.maxY, MathMax(value, start))>>,
                   !.call = [fn |-> "updateEndYear", value |-> value]]
  /\ KpiUnchanged

\* onChange={(e) => setMetric(e.target.value as MetricKey)}
kpiSetMetric(m) ==
  /\ kpi.metric # m
  /\ kpi' = [kpi EXCEPT !.metric = m, !.call = [fn |-> "setMetric", value |-> Num(0)]]
  /\ KpiUnchanged

NextKpi ==
  \/ KpiThen
  \/ KpiSync
  \/ \E value \in KpiYearArgs : kpiUpdateStartYear(value)
  \/ \E value \in KpiYearArgs : kpiUpdateEndYear(value)
  \/ \E m \in KpiMetrics : kpiSetMetric(m)
SpecKpi == InitKpi /\ [][NextKpi]_vars

kpiRows == byContinent(kpiFiltered(kpi.allData, kpi.yearRange), yearList(kpi.yearRange),
                       kpi.metric)
kpiTotal == kpiTotals(kpiFiltered(kpi.allData, kpi.yearRange))

-----------------------------------------------------------------------------
(* Claim C25 (SpecKpi) *)

\* the smallest and the largest finite year of the loaded records
KpiYears == {kpi.allData.rows[i].year : i \in {j \in 1..Len(kpi.allData.rows) :
                                                NumberIsFinite(kpi.allData.rows[j].year)}}
KpiMinYear == IF KpiYears = {} THEN Num(1900)
              ELSE CHOOSE y \in KpiYears : \A z \in KpiYears : ~Less(z, y)
KpiMaxYear == IF KpiYears = {} THEN Num(2025)
              ELSE CHOOSE y \in KpiYears : \A z \in KpiYears : ~Less(y, z)

-----------------------------------------------------------------------------
(* Claim C30 (SpecKpi) *)

ContinentMarkers ==
  << <<"Africa", africa>>, <<"Americas", americ>>, <<"Asia", asia>>,
     <<"Europe", europe>>, <<"Oceania", oceania>> >>

\* the markers that occur in s, trimmed and in lower case
MarkedIn(s) ==
  {k \in 1..Len(ContinentMarkers) : StrIncludes(ToLowerCase(Trim(s)), ContinentMarkers[k][2])}
FirstMarked(s) ==
  IF MarkedIn(s) = {} THEN "Other"
  ELSE ContinentMarkers[CHOOSE k \in MarkedIn(s) : \A j \in MarkedIn(s) : k <= j][1]

\* region is consulted before subregion
ContinentOf(r) ==
  IF MarkedIn(r.region) # {} THEN FirstMarked(r.region) ELSE FirstMarked(r.subregion)

RECURSIVE SumNums(_)
SumNums(s) ==
  IF s = <<>> THEN Num(0)
  ELSE IF Len(s) = 1 THEN s[1]
  ELSE Plus(SumNums(SubSeq(s, 1, Len(s) \div 2)), SumNums(SubSeq(s, Len(s) \div 2 + 1, Len(s))))

KpiFields == {"events", "deaths", "affected", "damage"}

\* C30: inferContinent assigns every record to exactly one of the six
\* continents (region before subregion, "Other" when neither matches), the
\* output always has exactly six continent rows, for each of events, deaths,
\* affected and damage the sum over the six rows equals the global total over
\* the year-filtered records, and for each continent the sum of its per-year
\* spark series equals its total for the active metric.
C30_ContinentConservation ==
  LET rows == kpiRows
      recs == kpi.allData.rows
  IN  /\ \A i \in 1..Len(recs) :
           /\ inferContinent(recs[i]) = ContinentOf(recs[i])
           /\ \E k \in 1..Len(CONTINENTS) : inferContinent(recs[i]) = CONTINENTS[k]
      /\ Len(rows) = 6
      /\ {rows[k].continent : k \in 1..Len(rows)} =
           {CONTINENTS[k] : k \in 1..Len(CONTINENTS)}
      /\ \A f \in KpiFields :
           NumEq(SumNums([k \in 1..Len(rows) |-> rows[k][f]]), kpiTotal[f])
      /\ \A k \in 1..Len(rows) :
           NumEq(SumNums(rows[k].spark), getMain(rows[k], kpi.metric))

-----------------------------------------------------------------------------
(* Claim C28 (SpecCompare) *)

\* C28: for identical records, selected countries, selected types, year range,
\* metric and bin size, the raincloud's valuesA and valuesB equal, position by
\* position, the a and b values of the diverging timeline's bins, and both
\* return their empty result under exactly the same conditions.
C28_RaincloudEqualsDiverging ==
  /\ Len(raincloud.valuesA) = Len(diverging.bins)
  /\ Len(raincloud.valuesB) = Len(diverging.bins)
  /\ \A i \in 1..Len(diverging.bins) :
       /\ raincloud.valuesA[i] = diverging.bins[i].a
       /\ raincloud.valuesB[i] = diverging.bins[i].b
  /\ (raincloud = raincloudEmpty) <=> (diverging = divergingEmpty)
  /\ raincloud.countryA = diverging.countryA /\ raincloud.countryB = diverging.countryB

\* both charts show two countries with a deselected type among their records,
\* a bin where only A has a value, one where only B has, and one with neither
C28_Witness ==
  /\ ChartActive
  /\ raincloud # raincloudEmpty
  /\ \E i \in 1..Len(data.rows) :
       /\ data.rows[i].disasterType \notin selectedTypes
       /\ data.rows[i].year.num >= yearRange[1] /\ data.rows[i].year.num <= yearRange[2]
       /\ matchesKey(data.rows[i], normalizeKey(selectedCountries[1]))
  /\ \E i, j, k \in 1..Len(raincloud.valuesA) :
       /\ raincloud.valuesA[i] > 0 /\ raincloud.valuesB[i] = 0
       /\ raincloud.valuesB[j] > 0 /\ raincloud.valuesA[j] = 0
       /\ raincloud.valuesA[k] = 0 /\ raincloud.valuesB[k] = 0

-----------------------------------------------------------------------------
(* Claim C29 (SpecCards) *)

\* C29: for the same countryId (any letter case, ISO code or country name),
\* the same non-empty type selection and the same year range, the total of the
\* total-events card equals the sum of events over all year/type rows of the
\* stacked timeline, and the total-deaths card's sum equals the stacked
\* timeline's summed deaths.
C29_SingleCountryViewsAgree ==
  (data.loaded /\ selectedTypes # {}) =>
    /\ Len(eventsCard) = SumSeq([k \in 1..Len(StackedRows) |-> StackedRows[k].events])
    /\ NumEq(deathsCard.totalDeaths,
             Num(SumSeq([k \in 1..Len(StackedRows) |-> StackedRows[k].deaths])))

-----------------------------------------------------------------------------
(* Claim C27 (SpecLive) *)

\* C27: once the CSV load has settled, by success or by failure, every component
\* that waits for it and stays mounted reaches loading = false with its data
\* set (or its error set), and a component that has left loading never returns
\* to it.
C27_EventuallyLeavesLoading ==
  /\ \A c \in Components :
       ( comp[c].pc = "waiting" /\ loads[comp[c].sub] # "pending" )
         ~> ( \/ comp[c].cancelled
              \/ /\ comp[c].loading = FALSE
                 /\ (comp[c].data.loaded \/ comp[c].error # NoError) )
  /\ [][ \A c \in Components :
           (comp[c].pc = "done" /\ comp[c].loading = FALSE) =>
             comp'[c].loading = FALSE ]_vars

\* a chart that was mounted while the load was in flight, stayed mounted, and
\* left loading after the load had failed
C27_Witness ==
  \E c \in Components :
    /\ KindOf(c) = "chart"
    /\ comp[c].pc = "done" /\ ~comp[c].cancelled
    /\ comp[c].seen \in {"started", "pending"}
    /\ loads[comp[c].sub] = "rejected"
    /\ comp[c].loading = FALSE /\ comp[c].data.loaded

-----------------------------------------------------------------------------
(* Aggregation runs over the one cached record list.  getDisasterData hands
   every component the same array, so `data` below is that array, and a run of
   a pipeline is a step that reads it, leaves it as the pipeline's code leaves
   it, and returns the memo's value.  Specification SpecShared *)

MaxRuns == 4        \* how many runs a behaviour makes

\* the shared array after a run of CountryTimelineDiverging's memo: data.filter
\* builds a new array, the loop reads d, and agg and bins are the memo's own
sharedAfterDiverging(rows) == rows

\* after a run of CountryTimelineStacked's memo: two data.filter calls,
\* d3.rollups and eventsByType.sort on its result, the loop adds to the memo's
\* own aggregate rows
sharedAfterStacked(rows) == rows

sharedAfterKpi_ReversedInPlace(rows) == [i \in 1..Len(rows) |-> rows[Len(rows) + 1 - i]]

\* after a run of ContinentKPIOverview's memos: allData.filter builds a new
\* array, the loop adds to the memo's own rows, and out.sort sorts
\* Array.from(rows.values())
sharedAfterKpi(rows) == rows

\* the filter states the runs are made with
SharedFilterStates == {1, 2}

divergingRun(fs, dt) ==
  divergingMemo(dt, <<Peru, TCD>>, IF fs = 1 THEN AllTypes ELSE {Flood, Storm},
                <<YearLo, YearHi>>, IF fs = 1 THEN "deaths" ELSE "events", 5)
stackedRun(fs, dt) ==
  stackedMemo(dt, Peru, AllTypes,
              IF fs = 1 THEN <<YearLo, YearHi>> ELSE <<YearLo + 2, YearLo + 4>>, "events")
kpiRun(fs, dt) ==
  LET range == <<Num(YearLo), Num(IF fs = 1 THEN YearHi ELSE YearLo + 2)>>
  IN  byContinent(kpiFiltered(dt, range), yearList(range),
                  IF fs = 1 THEN "events" ELSE "deaths")

InitShared ==
  /\ data = NullData
  /\ selectedCountries = <<>> /\ selectedTypes = {}
  /\ yearRange = <<YearLo, YearHi>> /\ metric = "events" /\ binSize = 5
  /\ Idle_loader /\ Idle_num /\ Idle_row /\ Idle_bin /\ Idle_country /\ Idle_client

SharedUnchanged ==
  UNCHANGED <<selectedCountries, selectedTypes, yearRange, metric, binSize,
              yearCall, renderedCountries, selectCall, kpi,
              loaderVars, numVars, rowVars, binVars, countryVars>>

\* the cached promise fulfils: every component gets the same array
SharedLoad ==
  /\ ~data.loaded
  /\ \E f \in CountryFiles : data' = Loaded(cleaned(MapRows(f, "emdatData")))
  /\ runs' = runs
  /\ SharedUnchanged

RunDiverging(fs) ==
  /\ data.loaded /\ Len(runs) < MaxRuns
  /\ runs' = Append(runs, [key |-> <<"diverging", fs>>, out |-> divergingRun(fs, data)])
  /\ data' = [data EXCEPT !.rows = sharedAfterDiverging(@)]
  /\ SharedUnchanged

RunStacked(fs) ==
  /\ data.loaded /\ Len(runs) < MaxRuns
  /\ runs' = Append(runs, [key |-> <<"stacked", fs>>, out |-> stackedRun(fs, data)])
  /\ data' = [data EXCEPT !.rows = sharedAfterStacked(@)]
  /\ SharedUnchanged

RunKpi(fs) ==
  /\ data.loaded /\ Len(runs) < MaxRuns
  /\ runs' = Append(runs, [key |-> <<"kpi", fs>>, out |-> kpiRun(fs, data)])
  /\ data' = [data EXCEPT !.rows = sharedAfterKpi(@)]
  /\ SharedUnchanged

NextShared ==
  \/ SharedLoad
  \/ \E fs \in SharedFilterStates : RunDiverging(fs)
  \/ \E fs \in SharedFilterStates : RunStacked(fs)
  \/ \E fs \in SharedFilterStates : RunKpi(fs)
SpecShared == InitShared /\ [][NextShared]_vars

-----------------------------------------------------------------------------
(* Claim C23 (SpecShared) *)

====
